---- MODULE Spec2Model ----
(***************************************************************************)
(* Replitex: bulk find/replace over a directory tree (src/main.py).        *)
(*                                                                         *)
(* The model covers FileProcessorWorker (the three real modes 'replace',   *)
(* 'copy1', 'copy2' and their preview), the part of MainWindow that starts *)
(* and stops workers, and a filesystem holding the working folder.         *)
(* Texts (names, contents, search and replacement text) are TLA+ strings;  *)
(* a character is a string of length 1.                                    *)
(***************************************************************************)
EXTENDS Integers, Sequences, FiniteSets, TLC

(***************************************************************************)
(* Characters and strings                                                  *)
(***************************************************************************)

\* The characters of the model in code-point order (str comparison, sorted()).
CodePoints == "\n ./0123456789ABCDEFGHIJKLMNOPQRSTUVWXYZ\\_abcdefghijklmnopqrstuvwxyz"

UpperCase == "ABCDEFGHIJKLMNOPQRSTUVWXYZ"

LowerCase == "abcdefghijklmnopqrstuvwxyz"

Digits == "0123456789"

\* s[i] of Python, 1-based.
At(s, i) == SubSeq(s, i, i)

\* c in s, for a character c.
HasChar(s, c) == \E i \in 1..Len(s) : At(s, i) = c

IndexIn(s, c) == CHOOSE i \in 1..Len(s) : At(s, i) = c

Ord(c) == IndexIn(CodePoints, c)

\* str.lower() on one character.
LowerChar(c) == IF HasChar(UpperCase, c) THEN At(LowerCase, IndexIn(UpperCase, c)) ELSE c

RECURSIVE Lower(_)
\* str.lower()
Lower(s) == IF s = "" THEN "" ELSE LowerChar(Head(s)) \o Lower(Tail(s))

RECURSIVE Strip(_)
\* str.strip(), over the whitespace of the model (space and newline).
Strip(s) ==
    IF s = "" THEN ""
    ELSE IF Head(s) \in {" ", "\n"} THEN Strip(Tail(s))
    ELSE IF At(s, Len(s)) \in {" ", "\n"} THEN Strip(SubSeq(s, 1, Len(s) - 1))
    ELSE s

\* a in b of Python (substring test).
Contains(b, a) == \E i \in 1..(Len(b) - Len(a) + 1) : SubSeq(b, i, i + Len(a) - 1) = a

\* str.startswith
StartsWith(s, p) == Len(p) <= Len(s) /\ SubSeq(s, 1, Len(p)) = p

RECURSIVE StrLess(_, _)
\* a < b on str: lexicographic by code point.
StrLess(a, b) ==
    IF b = "" THEN FALSE
    ELSE IF a = "" THEN TRUE
    ELSE IF Head(a) = Head(b) THEN StrLess(Tail(a), Tail(b))
    ELSE Ord(Head(a)) < Ord(Head(b))

RECURSIVE IntToStr(_)
\* str(n) for n >= 0, as the f-string of _get_unique_name formats the counter.
IntToStr(n) ==
    IF n < 10 THEN At(Digits, n + 1)
    ELSE IntToStr(n \div 10) \o At(Digits, (n % 10) + 1)

RECURSIVE SortedSeq(_)
\* sorted(S) for a finite set of strings.
SortedSeq(S) ==
    IF S = {} THEN <<>>
    ELSE LET m == CHOOSE x \in S : \A y \in S \ {x} : StrLess(x, y)
         IN <<m>> \o SortedSeq(S \ {m})

RECURSIVE Reverse(_)
\* reversed(seq)
Reverse(seq) == IF seq = <<>> THEN <<>> ELSE Reverse(Tail(seq)) \o <<Head(seq)>>

\* [x for x in seq if Test(x)]
Filter(seq, Test(_)) == SelectSeq(seq, Test)

Range(seq) == {seq[i] : i \in 1..Len(seq)}

(***************************************************************************)
(* The pattern engine (module re), for the patterns the worker builds:     *)
(* r'\b', re.escape(text) and their concatenation.                         *)
(***************************************************************************)

\* \w of re, over the characters of the model.
IsWordChar(c) == HasChar(UpperCase, c) \/ HasChar(LowerCase, c) \/ HasChar(Digits, c) \/ c = "_"

\* The characters that are special in a pattern (_special_chars_map of re).
SpecialChars == "()[]{}?*+-|^$\\.&~# \t\n\r\f"

\* No escaping: the text goes into the pattern as it is.
re_escape_none(s) == s

RECURSIVE re_escape(_)
\* re.escape: a backslash before every character that is special in a pattern.
re_escape(s) ==
    IF s = "" THEN ""
    ELSE (IF HasChar(SpecialChars, Head(s)) THEN "\\" \o Head(s) ELSE Head(s))
         \o re_escape(Tail(s))

RECURSIVE Compile(_)
\* re.compile on the pattern text: a sequence of items, each matching one
\* character (lit, any) or asserting a word boundary (wb).
Compile(p) ==
    IF p = "" THEN <<>>
    ELSE IF Head(p) = "\\" /\ Len(p) >= 2
         THEN (IF At(p, 2) = "b" THEN <<[t |-> "wb", c |-> ""]>>
               ELSE <<[t |-> "lit", c |-> At(p, 2)]>>) \o Compile(SubSeq(p, 3, Len(p)))
    ELSE IF Head(p) = "." THEN <<[t |-> "any", c |-> ""]>> \o Compile(Tail(p))
    ELSE <<[t |-> "lit", c |-> Head(p)]>> \o Compile(Tail(p))

\* \b between text[k-1] and text[k] (k in 1..Len+1): exactly one side is a
\* word character; beyond either end of the text counts as a non-word side.
WordBoundary(text, k) ==
    LET before == k > 1 /\ IsWordChar(At(text, k - 1))
        after == k <= Len(text) /\ IsWordChar(At(text, k))
    IN before # after

RECURSIVE MatchEnd(_, _, _, _)
\* The end (exclusive) of the match of item sequence prog at position k of
\* text, or 0 when prog does not match there. ic: re.IGNORECASE.
MatchEnd(prog, text, k, ic) ==
    IF prog = <<>> THEN k
    ELSE LET it == Head(prog)
         IN IF it.t = "wb"
            THEN IF WordBoundary(text, k) THEN MatchEnd(Tail(prog), text, k, ic) ELSE 0
            ELSE IF k > Len(text) THEN 0
            ELSE IF it.t = "any"
            THEN IF At(text, k) # "\n" THEN MatchEnd(Tail(prog), text, k + 1, ic) ELSE 0
            ELSE IF (IF ic THEN LowerChar(At(text, k)) = LowerChar(it.c) ELSE At(text, k) = it.c)
            THEN MatchEnd(Tail(prog), text, k + 1, ic)
            ELSE 0

\* re.search(pattern, text, flags) is not None
re_search(pattern, text, ic) ==
    \E k \in 1..(Len(text) + 1) : MatchEnd(Compile(pattern), text, k, ic) # 0

RECURSIVE SubFrom(_, _, _, _, _)
\* re.sub from position k on: leftmost non-overlapping matches replaced.
SubFrom(prog, repl, text, k, ic) ==
    IF k > Len(text) THEN ""
    ELSE LET e == MatchEnd(prog, text, k, ic)
         IN IF e > k THEN repl \o SubFrom(prog, repl, text, e, ic)
            ELSE At(text, k) \o SubFrom(prog, repl, text, k + 1, ic)

\* A character the strings of the model cannot hold (BEL, BS, VT, NUL and
\* the other results of octal escapes): no value; a replacement text of the
\* model never asks for one.
NoSuchChar == CHOOSE c \in {} : TRUE

RECURSIVE parse_template(_)
\* The replacement template of re.sub for a pattern without groups: raised
\* when the template is rejected (re.error), else the text it stands for.
\* After a backslash: a known letter escape gives its character, another
\* ASCII letter and a lone final backslash are errors, a digit 1-9 is a
\* reference to a group the pattern does not have, any other character is
\* kept together with the backslash.
parse_template(repl) ==
    LET ok(text) == [raised |-> FALSE, literal |-> text]
        err == [raised |-> TRUE, literal |-> ""]
        then(text, rest) == IF rest.raised THEN err ELSE ok(text \o rest.literal)
    IN IF repl = "" THEN ok("")
       ELSE IF Head(repl) # "\\" THEN then(Head(repl), parse_template(Tail(repl)))
       ELSE IF Len(repl) = 1 THEN err
       ELSE LET c == At(repl, 2)
                rest == parse_template(SubSeq(repl, 3, Len(repl)))
                octal3 == /\ Len(repl) >= 4
                          /\ \A i \in 2..4 : HasChar("01234567", At(repl, i))
            IN CASE c = "\\" -> then("\\", rest)
                 [] c = "n" -> then("\n", rest)
                 [] c = "t" -> then("\t", rest)
                 [] c = "r" -> then("\r", rest)
                 [] c = "f" -> then("\f", rest)
                 [] c \in {"a", "b", "v", "0"} -> then(NoSuchChar, rest)
                 [] c = "g" -> IF Len(repl) >= 3 /\ At(repl, 3) = "<"
                               THEN then(NoSuchChar, rest)
                               ELSE err
                 [] HasChar("123456789", c) -> IF octal3 THEN then(NoSuchChar, rest) ELSE err
                 [] HasChar(UpperCase, c) \/ HasChar(LowerCase, c) -> err
                 [] OTHER -> then("\\" \o c, rest)

\* re.sub(pattern, repl, text, flags=flags) raises re.error: a repl with a
\* backslash is parsed as a template before anything is matched.
re_sub_raises(repl) == HasChar(repl, "\\") /\ parse_template(repl).raised

\* re.sub(pattern, repl, text, flags=flags) where it does not raise.
re_sub(pattern, repl, text, ic) ==
    SubFrom(Compile(pattern), IF HasChar(repl, "\\") THEN parse_template(repl).literal ELSE repl,
            text, 1, ic)

RECURSIVE re_findall_count(_, _, _, _)
\* len(re.findall(pattern, text, flags)) counted from position k on.
re_findall_count(prog, text, k, ic) ==
    IF k > Len(text) THEN 0
    ELSE LET e == MatchEnd(prog, text, k, ic)
         IN IF e > k THEN 1 + re_findall_count(prog, text, e, ic)
            ELSE re_findall_count(prog, text, k + 1, ic)

\* A replacement of the first occurrence only.
str_replace_first(text, old, new) ==
    IF \E k \in 1..Len(text) : SubSeq(text, k, k + Len(old) - 1) = old
    THEN LET k == CHOOSE j \in 1..Len(text) :
                      /\ SubSeq(text, j, j + Len(old) - 1) = old
                      /\ \A h \in 1..(j - 1) : SubSeq(text, h, h + Len(old) - 1) # old
         IN SubSeq(text, 1, k - 1) \o new \o SubSeq(text, k + Len(old), Len(text))
    ELSE text

RECURSIVE str_replace(_, _, _)
\* text.replace(old, new) for a non-empty old.
str_replace(text, old, new) ==
    IF Len(text) < Len(old) THEN text
    ELSE IF SubSeq(text, 1, Len(old)) = old
         THEN new \o str_replace(SubSeq(text, Len(old) + 1, Len(text)), old, new)
    ELSE Head(text) \o str_replace(Tail(text), old, new)

(***************************************************************************)
(* Matcher: FileProcessorWorker._text_matches, _replace_text_in_string.    *)
(* self is the worker's parameter record (setup_parameters).               *)
(***************************************************************************)

\* Matching that does not look at whether there is a search text.
_text_matches_unguarded(self, text) ==
    LET search_text == IF self.case_sensitive THEN self.find_text ELSE Lower(self.find_text)
        target_text == IF self.case_sensitive THEN text ELSE Lower(text)
    IN IF self.whole_words
       THEN re_search("\\b" \o re_escape(search_text) \o "\\b", target_text, ~self.case_sensitive)
       ELSE Contains(target_text, search_text)

_text_matches(self, text) ==
    IF self.find_text = "" THEN FALSE
    ELSE LET search_text == IF self.case_sensitive THEN self.find_text ELSE Lower(self.find_text)
             target_text == IF self.case_sensitive THEN text ELSE Lower(text)
         IN IF self.whole_words
            THEN re_search("\\b" \o re_escape(search_text) \o "\\b", target_text, ~self.case_sensitive)
            ELSE Contains(target_text, search_text)

\* Replacement that takes every search text in its exact case.
_replace_text_in_string_exact(self, text) ==
    IF self.find_text = "" THEN text
    ELSE IF self.whole_words
    THEN re_sub("\\b" \o re_escape(self.find_text) \o "\\b", self.replace_text, text, FALSE)
    ELSE str_replace(text, self.find_text, self.replace_text)

_replace_text_in_string(self, text) ==
    IF self.find_text = "" THEN text
    ELSE IF self.whole_words
    THEN re_sub("\\b" \o re_escape(self.find_text) \o "\\b", self.replace_text, text, ~self.case_sensitive)
    ELSE IF self.case_sensitive
    THEN str_replace(text, self.find_text, self.replace_text)
    ELSE re_sub(re_escape(self.find_text), self.replace_text, text, TRUE)

\* _replace_text_in_string(text) raises: on the two paths that use re.sub,
\* when the replacement text is rejected as a template.
_replace_text_in_string_raises(self) ==
    /\ self.find_text # ""
    /\ self.whole_words \/ ~self.case_sensitive
    /\ re_sub_raises(self.replace_text)

(***************************************************************************)
(* Paths (os.path) and the filesystem.                                     *)
(* fs maps every existing absolute path to its node: kind, content (the    *)
(* text of a file as _read_file decodes it), enc (the first encoding of    *)
(* _read_file's list under which the file's bytes decode), id (the         *)
(* identity of the entry, kept by os.rename) and locked (open() on the     *)
(* file raises PermissionError).                                           *)
(***************************************************************************)

\* os.sep
sep == "/"

\* The last position of character c in s, 0 when there is none (str.rfind + 1).
LastIndex(s, c) ==
    IF HasChar(s, c) THEN CHOOSE i \in 1..Len(s) : At(s, i) = c /\ \A j \in (i + 1)..Len(s) : At(s, j) # c
    ELSE 0

\* os.path.join(a, b) for a relative b.
join(a, b) == IF a # "" /\ At(a, Len(a)) = sep THEN a \o b ELSE a \o sep \o b

\* os.path.basename
basename(p) == SubSeq(p, LastIndex(p, sep) + 1, Len(p))

\* os.path.dirname, for a path below the root directory.
dirname(p) == SubSeq(p, 1, LastIndex(p, sep) - 1)

\* os.path.splitext: the extension starts at the last dot of the last
\* component, unless only dots precede it there.
splitext(p) ==
    LET sepIndex == LastIndex(p, sep)
        dotIndex == LastIndex(p, ".")
    IN IF dotIndex > sepIndex /\ \E k \in (sepIndex + 1)..(dotIndex - 1) : At(p, k) # "."
       THEN <<SubSeq(p, 1, dotIndex - 1), SubSeq(p, dotIndex, Len(p))>>
       ELSE <<p, "">>

RECURSIVE normpath(_)
\* os.path.normpath on an absolute path without '.' and '..' components:
\* repeated separators collapse and a trailing separator is dropped.
normpath(p) ==
    IF Len(p) <= 1 THEN p
    ELSE IF At(p, 1) = sep /\ At(p, 2) = sep THEN normpath(Tail(p))
    ELSE IF Len(p) = 2 /\ At(p, 2) = sep THEN At(p, 1)
    ELSE Head(p) \o normpath(Tail(p))

\* os.path.exists, os.path.isfile, os.path.isdir. A path with a trailing
\* separator (join(d, "")) names the directory d.
exists(f, p) ==
    IF p # "" /\ At(p, Len(p)) = sep
    THEN SubSeq(p, 1, Len(p) - 1) \in DOMAIN f /\ f[SubSeq(p, 1, Len(p) - 1)].kind = "dir"
    ELSE p \in DOMAIN f

isfile(f, p) == p \in DOMAIN f /\ f[p].kind = "file"

isdir(f, p) == p \in DOMAIN f /\ f[p].kind = "dir"

\* p is d or lies below d.
Under(p, d) == p = d \/ StartsWith(p, d \o sep)

\* The names in directory d (os.listdir, Path.iterdir), as a set.
listdir(f, d) == {basename(p) : p \in {q \in DOMAIN f : q # d /\ Under(q, d) /\ dirname(q) = d}}

\* The order in which the operating system lists a directory is not fixed by
\* the program: ascending or descending by name (desc).
OsOrder(names, desc) == IF desc THEN Reverse(SortedSeq(names)) ELSE SortedSeq(names)

\* os.rename(src, dst) for a dst that does not exist: the entry and
\* everything below it move.
rename(f, src, dst) ==
    LET moved == {p \in DOMAIN f : Under(p, src)}
        to(p) == dst \o SubSeq(p, Len(src) + 1, Len(p))
        from(q) == src \o SubSeq(q, Len(dst) + 1, Len(q))
    IN [q \in (DOMAIN f \ moved) \cup {to(p) : p \in moved} |->
            IF q \in DOMAIN f \ moved THEN f[q] ELSE f[from(q)]]

\* A node created by the program.
NewFile(content, enc, id) ==
    [kind |-> "file", content |-> content, enc |-> enc, id |-> id, locked |-> FALSE, copy_of |-> 0]

NewDir(id) ==
    [kind |-> "dir", content |-> "", enc |-> "", id |-> id, locked |-> FALSE, copy_of |-> 0]

\* History: the id of the entry a copy was first made from (copy_of is 0 for
\* an entry that is no copy).
Origin(node) == IF node.copy_of # 0 THEN node.copy_of ELSE node.id

\* Adding or replacing the entry at path p.
Put(f, p, node) == [q \in DOMAIN f \cup {p} |-> IF q = p THEN node ELSE f[q]]

\* A move in the place of the copy: the file is at dst and no longer at src.
copy2_moving(f, src, dst, id) ==
    LET g == Put(f, dst, [NewFile(f[src].content, f[src].enc, id) EXCEPT !.copy_of = Origin(f[src])])
    IN [q \in DOMAIN g \ {src} |-> g[q]]

\* shutil.copy2(src, dst) of a readable file: dst holds the same bytes.
copy2(f, src, dst, id) ==
    Put(f, dst, [NewFile(f[src].content, f[src].enc, id) EXCEPT !.copy_of = Origin(f[src])])

\* os.mkdir
mkdir(f, p, id) == Put(f, p, NewDir(id))

\* open(p, 'w', encoding=encoding).write(text)
write(f, p, text, encoding) == [f EXCEPT ![p].content = text, ![p].enc = encoding]

\* The entries strictly below directory d.
Below(f, d) == {p \in DOMAIN f : p # d /\ Under(p, d)}

\* The entries below src that shutil.copytree can copy: every directory and
\* every file that can be opened.
Copyable(f, src) == {p \in Below(f, src) : ~f[p].locked}

\* shutil.copytree(src, dst, dirs_exist_ok=True) into the fresh directory
\* dst: a verbatim copy of everything below src; the copies get the ids
\* from id on, in the order of their paths.
copytree(f, src, dst, id) ==
    LET srcs == SortedSeq(Copyable(f, src))
        to(p) == dst \o SubSeq(p, Len(src) + 1, Len(p))
        idx(q) == CHOOSE i \in 1..Len(srcs) : to(srcs[i]) = q
        copies == {to(srcs[i]) : i \in 1..Len(srcs)}
    IN [q \in DOMAIN f \cup copies |->
            IF q \in copies
            THEN [f[srcs[idx(q)]] EXCEPT !.id = id + idx(q) - 1, !.copy_of = Origin(f[srcs[idx(q)]])]
            ELSE f[q]]

\* copytree raises shutil.Error, after copying the rest, when a file below
\* src cannot be opened.
copytree_raises(f, src) == \E p \in Below(f, src) : f[p].locked

(***************************************************************************)
(* Ignore policy                                                           *)
(***************************************************************************)

\* binary_extensions of _should_ignore_file.
binary_extensions ==
    {".png", ".jpg", ".jpeg", ".gif", ".bmp", ".tiff", ".tif", ".webp", ".ico", ".svg",
     ".mp4", ".avi", ".mkv", ".mov", ".wmv", ".flv", ".webm", ".m4v",
     ".mp3", ".wav", ".flac", ".aac", ".ogg", ".wma", ".m4a",
     ".zip", ".rar", ".7z", ".tar", ".gz", ".bz2",
     ".exe", ".dll", ".so", ".dylib", ".bin",
     ".pdf", ".doc", ".docx", ".xls", ".xlsx", ".ppt", ".pptx",
     ".db", ".sqlite", ".dat", ".cache"}

\* An ignore policy that knows no keyword.
NoIgnoredWord(self, text) == FALSE

_contains_ignored_word(self, text) ==
    IF self.ignored_words = {} THEN FALSE
    ELSE \E word \in self.ignored_words : Contains(Lower(text), word)

_should_ignore_file(file_path) == Lower(splitext(file_path)[2]) \in binary_extensions

_should_completely_ignore_file(self, file_path) ==
    IF self.ignored_extensions = {} THEN FALSE
    ELSE Lower(splitext(file_path)[2]) \in self.ignored_extensions

_should_ignore_path(self, item_path) ==
    IF self.ignored_paths = {} THEN FALSE
    ELSE \E ignored_path \in self.ignored_paths :
            \/ StartsWith(normpath(item_path), ignored_path \o sep)
            \/ normpath(item_path) = ignored_path

(***************************************************************************)
(* Events (the worker's signals) and preview records                       *)
(***************************************************************************)

\* status_updated.emit(text): the texts are display only; tag names the place.
StatusChanged(tag) == [type |-> "status", tag |-> tag]

\* progress_updated.emit(done, total)
Progress(done, total) == [type |-> "progress", done |-> done, total |-> total]

\* log_message.emit(text): msg names the message, path the path it reports,
\* renamed and replaced the optional parts of the copy messages.
LogLine(msg, path) == [type |-> "log", msg |-> msg, path |-> path, renamed |-> FALSE, replaced |-> FALSE]

LogCopy(msg, path, renamed, replaced) ==
    [type |-> "log", msg |-> msg, path |-> path, renamed |-> renamed, replaced |-> replaced]

\* preview_ready.emit(temp_matches)
PreviewReady(matches) == [type |-> "preview_ready", matches |-> matches]

\* finished.emit(success)
Finished(success) == [type |-> "finished", success |-> success]

\* An entry of temp_matches.
MatchRecord(path, type, old_name, new_name, is_file, matches) ==
    [path |-> path, type |-> type, old_name |-> old_name, new_name |-> new_name,
     is_file |-> is_file, matches |-> matches]

(***************************************************************************)
(* Content codec and unique names                                          *)
(***************************************************************************)

\* encodings of _read_file, in the order tried.
encodings == <<"utf-8", "cp1251", "latin-1">>

\* open(file_path, 'r', encoding=encoding).read() succeeds: the bytes decode
\* under the file's own first encoding and under latin-1, which decodes
\* every byte string.
Decodes(node, encoding) == encoding = node.enc \/ encoding = "latin-1"

\* _read_file: raised (open() failed: PermissionError, FileNotFoundError),
\* decoded (FALSE is the None result), content and the encoding that worked.
_read_file(f, file_path) ==
    IF ~isfile(f, file_path) \/ f[file_path].locked
    THEN [raised |-> TRUE, decoded |-> FALSE, content |-> "", encoding |-> ""]
    ELSE LET ok == {i \in 1..Len(encodings) : Decodes(f[file_path], encodings[i])}
         IN IF ok = {}
            THEN [raised |-> FALSE, decoded |-> FALSE, content |-> "", encoding |-> ""]
            ELSE [raised |-> FALSE, decoded |-> TRUE, content |-> f[file_path].content,
                  encoding |-> encodings[CHOOSE i \in ok : \A j \in ok : i <= j]]

\* The first value of counter in _get_unique_name.
FirstCounter == 2

\* The first numbered name, taken without looking whether it exists.
UniqueFromUnchecked(f, base_name, ext, target_dir, counter) ==
    base_name \o "_" \o IntToStr(counter) \o ext

RECURSIVE UniqueFrom(_, _, _, _, _)
\* The while loop of _get_unique_name.
UniqueFrom(f, base_name, ext, target_dir, counter) ==
    LET new_name == base_name \o "_" \o IntToStr(counter) \o ext
    IN IF ~exists(f, join(target_dir, new_name)) THEN new_name
       ELSE UniqueFrom(f, base_name, ext, target_dir, counter + 1)

\* The name as it is, whether or not it exists.
_get_unique_name_same(f, original_name, target_dir) == original_name

_get_unique_name(f, original_name, target_dir) ==
    IF ~exists(f, join(target_dir, original_name)) THEN original_name
    ELSE UniqueFrom(f, splitext(original_name)[1], splitext(original_name)[2], target_dir, FirstCounter)

RECURSIVE Split(_, _)
\* content.split('\n'); cur is the line being collected.
Split(content, cur) ==
    IF content = "" THEN <<cur>>
    ELSE IF Head(content) = "\n" THEN <<cur>> \o Split(Tail(content), "")
    ELSE Split(Tail(content), cur \o Head(content))

\* _check_file_content: raised, or the matching lines of the file.
_check_file_content(self, f, file_path) ==
    IF _should_ignore_path(self, file_path) \/ _should_completely_ignore_file(self, file_path)
       \/ _should_ignore_file(file_path)
    THEN [raised |-> FALSE, matches |-> <<>>]
    ELSE LET r == _read_file(f, file_path)
             lines == Split(r.content, "")
             hit == {n \in 1..Len(lines) : _text_matches(self, lines[n])}
         IN IF r.raised THEN [raised |-> TRUE, matches |-> <<>>]
            ELSE IF ~r.decoded \/ _contains_ignored_word(self, r.content)
            THEN [raised |-> FALSE, matches |-> <<>>]
            ELSE [raised |-> FALSE,
                  matches |-> [k \in 1..Cardinality(hit) |->
                      LET n == CHOOSE m \in hit : Cardinality({x \in hit : x < m}) = k - 1
                      IN [line_number |-> n, line_content |-> Strip(lines[n]),
                          replaced_line |-> Strip(_replace_text_in_string(self, lines[n]))]]]

(***************************************************************************)
(* The per-entry operations of the real run. Each returns the filesystem   *)
(* after it (fs), its return value (ret), the log lines it emitted (log)   *)
(* and whether an exception left it (raised).                              *)
(***************************************************************************)

Outcome(f, ret, log, raised) == [fs |-> f, ret |-> ret, log |-> log, raised |-> raised]

\* The pattern and flags _process_file_content counts the replacements with.
CountPattern(self) ==
    IF self.whole_words THEN "\\b" \o re_escape(self.find_text) \o "\\b" ELSE re_escape(self.find_text)

\* The content is rewritten whatever the extension of the file is.
_process_file_content_any_extension(self, f, file_path) ==
    IF _should_ignore_path(self, file_path) \/ _should_completely_ignore_file(self, file_path)
    THEN Outcome(f, FALSE, <<>>, FALSE)
    ELSE LET r == _read_file(f, file_path)
             new_content == _replace_text_in_string(self, r.content)
         IN IF r.raised THEN Outcome(f, FALSE, <<>>, TRUE)
            ELSE IF _contains_ignored_word(self, r.content) \/ ~_text_matches(self, r.content)
            THEN Outcome(f, FALSE, <<>>, FALSE)
            ELSE Outcome(write(f, file_path, new_content, "utf-8"), TRUE,
                         <<[LogLine("content_replaced", file_path) EXCEPT !.replaced = TRUE]>>, FALSE)

_process_file_content(self, f, file_path) ==
    IF _should_ignore_path(self, file_path) \/ _should_completely_ignore_file(self, file_path)
       \/ _should_ignore_file(file_path)
    THEN Outcome(f, FALSE, <<>>, FALSE)
    ELSE LET r == _read_file(f, file_path)
             \* content is None: the same encodings are tried once more
             again == _read_file(f, file_path)
             content == IF r.decoded THEN r.content ELSE again.content
             decoded == r.decoded \/ again.decoded
             used_encoding == IF r.decoded THEN "utf-8" ELSE again.encoding
             new_content == _replace_text_in_string(self, content)
             old_count == re_findall_count(Compile(CountPattern(self)), content, 1, ~self.case_sensitive)
         IN IF r.raised THEN Outcome(f, FALSE, <<>>, TRUE)
            ELSE IF ~decoded \/ _contains_ignored_word(self, content) \/ ~_text_matches(self, content)
            THEN Outcome(f, FALSE, <<>>, FALSE)
            ELSE Outcome(write(f, file_path, new_content, used_encoding), TRUE,
                         <<[LogLine("content_replaced", file_path) EXCEPT !.replaced = old_count > 0]>>, FALSE)

\* A rename that does not look whether the new path exists.
RenameItemOverwriting(self, f, item_path) ==
    LET item_name == basename(item_path)
        new_name == _replace_text_in_string(self, item_name)
        new_path == join(dirname(item_path), new_name)
    IN IF ~_text_matches(self, item_name) THEN Outcome(f, FALSE, <<>>, FALSE)
       ELSE IF ~exists(f, item_path)
       THEN Outcome(f, FALSE, <<LogLine("rename_error", item_path)>>, FALSE)
       ELSE Outcome(rename(f, item_path, new_path), TRUE, <<LogLine("renamed", item_path)>>, FALSE)

\* The body of _process_item_name after the ignore checks.
RenameItem(self, f, item_path) ==
    LET item_name == basename(item_path)
        new_name == _replace_text_in_string(self, item_name)
        new_path == join(dirname(item_path), new_name)
    IN IF ~_text_matches(self, item_name) THEN Outcome(f, FALSE, <<>>, FALSE)
       ELSE IF exists(f, new_path)
       THEN Outcome(f, FALSE, <<LogLine("rename_exists", new_path)>>, FALSE)
       ELSE IF ~exists(f, item_path)
       \* os.rename raises FileNotFoundError; the except clause logs it
       THEN Outcome(f, FALSE, <<LogLine("rename_error", item_path)>>, FALSE)
       ELSE Outcome(rename(f, item_path, new_path), TRUE, <<LogLine("renamed", item_path)>>, FALSE)

_process_item_name(self, f, item_path) ==
    IF _should_ignore_path(self, item_path)
       \/ (isfile(f, item_path) /\ _should_completely_ignore_file(self, item_path))
    THEN Outcome(f, FALSE, <<>>, FALSE)
    ELSE IF isfile(f, item_path) /\ ~_should_ignore_file(item_path)
    THEN LET r == _read_file(f, item_path)
         IN IF ~r.raised /\ r.decoded /\ _contains_ignored_word(self, r.content)
            THEN Outcome(f, FALSE, <<>>, FALSE)
            \* an exception of _read_file is swallowed (except Exception: pass)
            ELSE RenameItem(self, f, item_path)
    ELSE RenameItem(self, f, item_path)

(***************************************************************************)
(* Enumeration                                                             *)
(***************************************************************************)

\* The paths of the entries of directory d, in the order the OS lists them.
iterdir(f, d, desc) ==
    LET names == OsOrder(listdir(f, d), desc)
    IN [i \in 1..Len(names) |-> join(d, names[i])]

RECURSIVE Concat(_)
\* The concatenation of a sequence of sequences.
Concat(seqs) == IF seqs = <<>> THEN <<>> ELSE Head(seqs) \o Concat(Tail(seqs))

RECURSIVE rglob(_, _, _)
\* Path(d).rglob('*'): the entries of d, then those of each directory below
\* it, every directory visited before the directories inside it.
rglob(f, d, desc) ==
    LET here == iterdir(f, d, desc)
        dirs == Filter(here, LAMBDA p : isdir(f, p))
    IN here \o Concat([i \in 1..Len(dirs) |-> rglob(f, dirs[i], desc)])

_get_all_items(self, f, desc) ==
    LET top == iterdir(f, self.folder_path, desc)
        subfolders == Filter(top, LAMBDA p : isdir(f, p))
    IN IF self.include_subfolders
       THEN top \o Concat([i \in 1..Len(subfolders) |-> rglob(f, subfolders[i], desc)])
       ELSE top

(***************************************************************************)
(* State                                                                   *)
(***************************************************************************)

VARIABLES
    form,           \* MainWindow: the values of the input controls and folder_path
    osDesc,         \* the order in which the OS lists directories (see OsOrder)
    fs,             \* the filesystem
    nextId,         \* the id of the next entry created
    ui_enabled,     \* MainWindow: preview_btn and start_btn are enabled
    closed,         \* MainWindow: closeEvent was accepted
    worker,         \* MainWindow.worker: None or the worker's parameters
    stop_requested, \* worker._stop_requested
    stack,          \* the worker thread: the frames of the calls in progress
    temp_matches,   \* worker.temp_matches
    events,         \* the signals the current worker has emitted, in order
    runs,           \* the number of workers started so far
    fs0,            \* history: fs when the current worker was started
    enumerated,     \* history: the entries _run_replacement listed, with their ids
    observed,       \* history: fs when the worker first read the stop flag as set
    shown,          \* history: the last list emitted with preview_ready, and the run that emitted it
    stopped,        \* history: fs, events and temp_matches when the stop flag was set
    call,           \* the last call of a Matcher function: its arguments and what it gave
    prev            \* history: the parameters of the worker before the current one, and how it ended

vars == <<form, osDesc, fs, nextId, ui_enabled, closed, worker, stop_requested, stack,
          temp_matches, events, runs, fs0, enumerated, observed, shown, stopped, call, prev>>

\* What no step of the worker thread changes.
gui == <<ui_enabled, closed, worker, stop_requested, runs, fs0, stopped, call, prev>>

\* No call of stop_processing yet.
NotStopped == [set |-> FALSE, fs |-> << >>, events |-> 0, temp_matches |-> 0]

\* No call of a Matcher function yet.
NoCall == [fn |-> "", text |-> "", raised |-> FALSE, ret_bool |-> FALSE, ret_str |-> ""]

\* MainWindow.worker = None
None == [is_none |-> TRUE]

\* No worker before the current one.
NoPrev == [given |-> FALSE, worker |-> None, completed |-> FALSE]

\* The number of workers one session starts.
MaxRuns == 2

\* A frame of the worker thread. fn: the function; pc: the place in it;
\* path (also target_parent, target), source (also source_path), all_items
\* (also all_top_items), items (also filtered_items), files (also
\* all_top_files), i, created_dirs, renamed: its locals.
Frame(fn, pc) ==
    [fn |-> fn, pc |-> pc, path |-> "", source |-> "", all_items |-> <<>>, items |-> <<>>,
     files |-> <<>>, i |-> 1, created_dirs |-> <<>>, renamed |-> FALSE]

\* The frame of a call fn(path) or fn(source, path).
CallFrame(fn, source, path) == [Frame(fn, "entry") EXCEPT !.source = source, !.path = path]

Running == stack # <<>>

top == stack[Len(stack)]

Rest == SubSeq(stack, 1, Len(stack) - 1)

\* The top frame replaced by fr.
Goto(fr) == Rest \o <<fr>>

\* The top frame replaced by fr and the frame of a call pushed.
Call(fr, callee) == Rest \o <<fr, callee>>

At_(fn, pc) == Running /\ top.fn = fn /\ top.pc = pc

\* The stop flag is read: the first time it is read as set is recorded.
ReadStop == observed' = IF stop_requested /\ ~observed.seen THEN [seen |-> TRUE, fs |-> fs] ELSE observed

\* An except clause after which the function goes on to its last line.
FatalThenDone == <<LogLine("fatal", ""), Finished(FALSE), Finished(TRUE)>>

\* The except clause of a _run_ function: one log line and Finished(False).
Fatal == <<LogLine("fatal", ""), Finished(FALSE)>>

(***************************************************************************)
(* MainWindow                                                              *)
(***************************************************************************)

\* _get_ignored_extensions: a leading dot is added where missing.
_get_ignored_extensions(exts) == {IF StartsWith(ext, ".") THEN ext ELSE "." \o ext : ext \in exts}

\* FileProcessorWorker.setup_parameters as show_preview and start_processing call it.
setup_parameters(fm, is_preview) ==
    [folder_path |-> fm.folder_path,
     find_text |-> fm.find_text,
     replace_text |-> fm.replace_text,
     case_sensitive |-> fm.case_sensitive,
     whole_words |-> fm.whole_words,
     include_subfolders |-> fm.include_subfolders,
     ignored_words |-> {Lower(Strip(word)) : word \in fm.ignored_words},
     ignored_paths |-> {normpath(path) : path \in fm.ignored_paths},
     ignored_extensions |-> {Strip(Lower(ext)) : ext \in _get_ignored_extensions(fm.ignored_extensions)},
     is_preview_mode |-> is_preview,
     mode |-> fm.mode]

_validate_inputs == Strip(form.find_text) # "" /\ exists(fs, form.folder_path)

\* A handler that starts the worker and leaves the controls as they are.
StartWorkerKeepingUi(is_preview) ==
    /\ ui_enabled /\ ~closed /\ runs < MaxRuns
    /\ _validate_inputs
    /\ worker' = setup_parameters(form, is_preview)
    /\ stop_requested' = FALSE
    /\ stack' = <<Frame("run", "start")>>
    /\ events' = <<>>
    /\ temp_matches' = <<>>
    /\ runs' = runs + 1
    /\ fs0' = fs
    /\ enumerated' = <<>>
    /\ observed' = [seen |-> FALSE, fs |-> fs]
    /\ stopped' = NotStopped
    /\ UNCHANGED <<form, osDesc, fs, nextId, ui_enabled, closed, shown, call, prev>>

\* The worker is created, set up and its thread started (both handlers).
StartWorker(is_preview) ==
    /\ ui_enabled /\ ~closed /\ runs < MaxRuns
    /\ _validate_inputs
    /\ ui_enabled' = FALSE
    /\ worker' = setup_parameters(form, is_preview)
    /\ stop_requested' = FALSE
    /\ stack' = <<Frame("run", "start")>>
    /\ events' = <<>>
    /\ temp_matches' = <<>>
    /\ runs' = runs + 1
    /\ fs0' = fs
    /\ enumerated' = <<>>
    /\ observed' = [seen |-> FALSE, fs |-> fs]
    /\ stopped' = NotStopped
    /\ UNCHANGED <<form, osDesc, fs, nextId, closed, shown, call, prev>>

show_preview == StartWorker(TRUE)

start_processing == StartWorker(FALSE)

\* The slot of worker.finished: the thread is joined and the controls enabled.
_on_worker_finished ==
    /\ worker # None /\ ~closed /\ ~Running
    /\ worker' = None
    /\ ui_enabled' = TRUE
    /\ prev' = [given |-> TRUE, worker |-> worker,
                completed |-> ~stop_requested /\ events[Len(events)] = Finished(TRUE)]
    /\ UNCHANGED <<form, osDesc, fs, nextId, closed, stop_requested, stack, temp_matches,
                   events, runs, fs0, enumerated, observed, shown, stopped, call>>

\* The window is closed (and the question answered Yes): a running worker is
\* asked to stop. The thread is taken to run on to the place where it reads
\* the flag and to return from run(): the end of the process while the
\* thread still works is not part of the model.
closeEvent ==
    /\ ~closed
    /\ closed' = TRUE
    /\ stop_requested' = (stop_requested \/ worker # None)
    /\ stopped' = IF worker # None
                  THEN [set |-> TRUE, fs |-> fs, events |-> Len(events),
                        temp_matches |-> Len(temp_matches)]
                  ELSE stopped
    /\ UNCHANGED <<form, osDesc, fs, nextId, ui_enabled, worker, stack, temp_matches,
                   events, runs, fs0, enumerated, observed, shown, call, prev>>

(***************************************************************************)
(* FileProcessorWorker._run_replacement                                    *)
(***************************************************************************)

\* Up to the first loop: the entries are listed and filtered.
RunReplacementStart ==
    /\ At_("run", "start") /\ ~worker.is_preview_mode /\ worker.mode = "replace"
    /\ LET all_items == _get_all_items(worker, fs, osDesc)
           filtered_items == Filter(all_items, LAMBDA p : ~_contains_ignored_word(worker, p))
           files == Filter(filtered_items, LAMBDA p : isfile(fs, p))
       IN /\ stack' = <<[Frame("_run_replacement", "files") EXCEPT
                            !.items = filtered_items, !.files = files]>>
          /\ enumerated' = [k \in 1..Len(filtered_items) |->
                                [path |-> filtered_items[k], id |-> fs[filtered_items[k]].id]]
    /\ events' = events \o <<StatusChanged("start")>>
    /\ UNCHANGED <<form, osDesc, fs, nextId, temp_matches, observed, shown>>
    /\ UNCHANGED gui

\* One pass of the loop over files: content rewriting.
ReplaceFilesStep ==
    /\ At_("_run_replacement", "files")
    /\ ReadStop
    /\ LET i == top.i
           file_path == top.files[i]
           r == _process_file_content(worker, fs, file_path)
           emitted == <<Progress(i, Len(top.items)), StatusChanged("file")>>
       IN IF i > Len(top.files) \/ stop_requested
          THEN /\ stack' = Goto([top EXCEPT !.pc = "items", !.i = 1])
               /\ UNCHANGED <<fs, events>>
          ELSE IF _contains_ignored_word(worker, basename(file_path))
          THEN /\ stack' = Goto([top EXCEPT !.i = i + 1])
               /\ events' = events \o emitted
               /\ UNCHANGED fs
          ELSE IF r.raised
          THEN /\ stack' = <<>>
               /\ events' = events \o emitted \o Fatal
               /\ UNCHANGED fs
          ELSE /\ stack' = Goto([top EXCEPT !.i = i + 1])
               /\ events' = events \o emitted \o r.log
               /\ fs' = r.fs
    /\ UNCHANGED <<form, osDesc, nextId, temp_matches, enumerated, shown>>
    /\ UNCHANGED gui

\* The rename loop over the list as enumerated.
RenameOrderForward(filtered_items) == filtered_items

\* The order in which the second loop visits filtered_items.
RenameOrder(filtered_items) == Reverse(filtered_items)

\* One pass of the loop over reversed(filtered_items): renaming; after the
\* loop the run is reported finished.
ReplaceItemsStep ==
    /\ At_("_run_replacement", "items")
    /\ ReadStop
    /\ LET i == top.i
           filtered_items_reversed == RenameOrder(top.items)
           item_path == filtered_items_reversed[i]
           r == _process_item_name(worker, fs, item_path)
           emitted == <<Progress(Len(top.files) + i, Len(top.items) + Len(top.files)),
                        StatusChanged("item")>>
       IN IF i > Len(top.items) \/ stop_requested
          THEN /\ stack' = <<>>
               /\ events' = events \o <<LogLine("done", ""), StatusChanged("done"), Finished(TRUE)>>
               /\ UNCHANGED fs
          ELSE IF _contains_ignored_word(worker, basename(item_path))
          THEN /\ stack' = Goto([top EXCEPT !.i = i + 1])
               /\ events' = events \o emitted
               /\ UNCHANGED fs
          ELSE /\ stack' = Goto([top EXCEPT !.i = i + 1])
               /\ events' = events \o emitted \o r.log
               /\ fs' = r.fs
    /\ UNCHANGED <<form, osDesc, nextId, temp_matches, enumerated, shown>>
    /\ UNCHANGED gui

(***************************************************************************)
(* FileProcessorWorker._run_copy1 and _process_copy_with_replace           *)
(***************************************************************************)

RunCopy1Start ==
    /\ At_("run", "start") /\ ~worker.is_preview_mode /\ worker.mode = "copy1"
    /\ LET all_top_items == iterdir(fs, worker.folder_path, osDesc)
           filtered_items == Filter(all_top_items, LAMBDA p :
                                 ~_contains_ignored_word(worker, p) /\ ~_should_ignore_path(worker, p))
       IN stack' = <<[Frame("_run_copy1", "items") EXCEPT
                         !.all_items = all_top_items, !.items = filtered_items]>>
    /\ events' = events \o <<StatusChanged("start")>>
    /\ UNCHANGED <<form, osDesc, fs, nextId, temp_matches, enumerated, observed, shown>>
    /\ UNCHANGED gui

\* One pass of the loop over filtered_items: a matching top-level entry is
\* handed to _process_copy_with_replace.
Copy1ItemsStep ==
    /\ At_("_run_copy1", "items")
    /\ ReadStop
    /\ LET i == top.i
           item_path == top.items[i]
           emitted == <<Progress(i, Len(top.items)), StatusChanged("item")>>
       IN IF i > Len(top.items) \/ stop_requested
          THEN /\ stack' = Goto([top EXCEPT !.pc = "files", !.i = 1,
                                    !.files = Filter(top.all_items, LAMBDA p : isfile(fs, p))])
               /\ UNCHANGED events
          ELSE IF ~_text_matches(worker, basename(item_path))
          THEN /\ stack' = Goto([top EXCEPT !.i = i + 1])
               /\ events' = events \o emitted
          ELSE /\ stack' = Call([top EXCEPT !.i = i + 1],
                                CallFrame("_process_copy_with_replace", item_path, worker.folder_path))
               /\ events' = events \o emitted
    /\ UNCHANGED <<form, osDesc, fs, nextId, temp_matches, enumerated, shown>>
    /\ UNCHANGED gui

\* _process_copy_with_replace(source, target_parent) up to its loop over the
\* children: a file is copied and its copy rewritten, a directory created.
\* Every exception is caught and logged here.
ProcessCopyEntry ==
    /\ At_("_process_copy_with_replace", "entry")
    /\ ReadStop
    /\ LET source == top.source
           target_parent == top.path
           source_name == basename(source)
           renamed == _text_matches(worker, source_name)
           new_name == IF renamed THEN _replace_text_in_string(worker, source_name) ELSE source_name
           first == join(target_parent, new_name)
           target == IF exists(fs, first)
                     THEN join(target_parent, _get_unique_name(fs, source_name, target_parent))
                     ELSE first
           r == _read_file(fs, source)
           copied == copy2(fs, source, target, nextId)
           pr == _process_file_content(worker, copied, target)
       IN IF stop_requested \/ _contains_ignored_word(worker, source_name)
          THEN /\ stack' = Rest
               /\ UNCHANGED <<fs, nextId, events>>
          ELSE IF exists(fs, first) /\ renamed
          THEN /\ stack' = Rest
               /\ events' = events \o <<LogLine("copy_exists", first)>>
               /\ UNCHANGED <<fs, nextId>>
          ELSE IF isfile(fs, source)
          THEN IF _should_ignore_file(source) \/ _should_completely_ignore_file(worker, source)
               THEN /\ stack' = Rest
                    /\ UNCHANGED <<fs, nextId, events>>
               ELSE IF r.raised
               THEN /\ stack' = Rest
                    /\ events' = events \o <<LogLine("copy_error", source)>>
                    /\ UNCHANGED <<fs, nextId>>
               ELSE IF ~r.decoded \/ _contains_ignored_word(worker, r.content)
               THEN /\ stack' = Rest
                    /\ UNCHANGED <<fs, nextId, events>>
               ELSE /\ stack' = Rest
                    /\ fs' = pr.fs
                    /\ nextId' = nextId + 1
                    /\ events' = events \o pr.log \o
                           (IF pr.raised THEN <<LogLine("copy_error", source)>>
                            ELSE <<LogCopy("file_copied", target, renamed, pr.ret)>>)
          ELSE IF ~isdir(fs, source)
          \* os.listdir(source) raises after os.mkdir(target)
          THEN /\ stack' = Rest
               /\ fs' = mkdir(fs, target, nextId)
               /\ nextId' = nextId + 1
               /\ events' = events \o <<LogLine("copy_error", source)>>
          ELSE /\ fs' = mkdir(fs, target, nextId)
               /\ nextId' = nextId + 1
               /\ stack' = Goto([top EXCEPT !.pc = "children", !.path = target, !.i = 1,
                                    !.renamed = renamed,
                                    !.items = OsOrder(listdir(fs, source), osDesc)])
               /\ UNCHANGED events
    /\ UNCHANGED <<form, osDesc, temp_matches, enumerated, shown>>
    /\ UNCHANGED gui

\* The loop over os.listdir(source): one child is handed to a recursive
\* call; after the last one the copy of the directory is logged.
ProcessCopyChild ==
    /\ At_("_process_copy_with_replace", "children")
    /\ LET i == top.i
       IN IF i > Len(top.items)
          THEN /\ stack' = Rest
               /\ events' = events \o <<LogCopy("dir_copied", top.path, top.renamed, FALSE)>>
          ELSE /\ stack' = Call([top EXCEPT !.i = i + 1],
                                CallFrame("_process_copy_with_replace",
                                          join(top.source, top.items[i]), top.path))
               /\ UNCHANGED events
    /\ UNCHANGED <<form, osDesc, fs, nextId, temp_matches, enumerated, observed, shown>>
    /\ UNCHANGED gui

\* One pass of the loop over all_top_files: a top-level file whose content
\* matches and whose name does not is duplicated under a unique name; after
\* the loop the run is reported finished.
Copy1FilesStep ==
    /\ At_("_run_copy1", "files")
    /\ ReadStop
    /\ LET i == top.i
           file_path == top.files[i]
           item_name == basename(file_path)
           r == _read_file(fs, file_path)
           new_name == _get_unique_name(fs, item_name, worker.folder_path)
           target == join(worker.folder_path, new_name)
           pr == _process_file_content(worker, copy2(fs, file_path, target, nextId), target)
       IN IF i > Len(top.files) \/ stop_requested
          THEN /\ stack' = <<>>
               /\ events' = events \o <<LogLine("done", ""), StatusChanged("done"), Finished(TRUE)>>
               /\ UNCHANGED <<fs, nextId>>
          ELSE IF \/ _text_matches(worker, item_name)
                  \/ _contains_ignored_word(worker, item_name)
                  \/ _should_ignore_path(worker, file_path)
                  \/ _should_ignore_file(file_path)
                  \/ _should_completely_ignore_file(worker, file_path)
          THEN /\ stack' = Goto([top EXCEPT !.i = i + 1])
               /\ UNCHANGED <<fs, nextId, events>>
          ELSE IF r.raised
          THEN /\ stack' = <<>>
               /\ events' = events \o Fatal
               /\ UNCHANGED <<fs, nextId>>
          ELSE IF ~r.decoded \/ _contains_ignored_word(worker, r.content)
                  \/ ~_text_matches(worker, r.content)
          THEN /\ stack' = Goto([top EXCEPT !.i = i + 1])
               /\ UNCHANGED <<fs, nextId, events>>
          ELSE /\ fs' = pr.fs
               /\ nextId' = nextId + 1
               /\ IF pr.raised
                  THEN /\ stack' = <<>>
                       /\ events' = events \o Fatal
                  ELSE /\ stack' = Goto([top EXCEPT !.i = i + 1])
                       /\ events' = events \o pr.log \o
                              (IF pr.ret THEN <<LogLine("content_copy", target)>> ELSE <<>>)
    /\ UNCHANGED <<form, osDesc, temp_matches, enumerated, shown>>
    /\ UNCHANGED gui

(***************************************************************************)
(* FileProcessorWorker._run_copy2 and _process_dir                         *)
(***************************************************************************)

RunCopy2Start ==
    /\ At_("run", "start") /\ ~worker.is_preview_mode /\ worker.mode = "copy2"
    /\ stack' = <<Frame("_run_copy2", "finish"), CallFrame("_process_dir", "", worker.folder_path)>>
    /\ events' = events \o <<StatusChanged("start")>>
    /\ UNCHANGED <<form, osDesc, fs, nextId, temp_matches, enumerated, observed, shown>>
    /\ UNCHANGED gui

\* A _run_copy2 that returns without emitting finished.
RunCopy2FinishSilent ==
    /\ At_("_run_copy2", "finish")
    /\ stack' = <<>>
    /\ events' = events \o <<LogLine("done", ""), StatusChanged("done")>>
    /\ UNCHANGED <<form, osDesc, fs, nextId, temp_matches, enumerated, observed, shown>>
    /\ UNCHANGED gui

\* _process_dir(self.folder_path) has returned.
RunCopy2Finish ==
    /\ At_("_run_copy2", "finish")
    /\ stack' = <<>>
    /\ events' = events \o <<LogLine("done", ""), StatusChanged("done"), Finished(TRUE)>>
    /\ UNCHANGED <<form, osDesc, fs, nextId, temp_matches, enumerated, observed, shown>>
    /\ UNCHANGED gui

\* A _process_dir that undoes the run when it reads the stop flag as set.
ProcessDirEntryUndoing ==
    /\ At_("_process_dir", "entry")
    /\ ReadStop
    /\ IF stop_requested
       THEN /\ stack' = Rest
            /\ fs' = fs0
            /\ UNCHANGED events
       ELSE IF ~isdir(fs, top.path)
       THEN /\ stack' = <<>>
            /\ events' = events \o Fatal
            /\ UNCHANGED fs
       ELSE /\ stack' = Goto([top EXCEPT !.pc = "renamed", !.i = 1,
                                 !.items = SortedSeq(listdir(fs, top.path))])
            /\ UNCHANGED <<fs, events>>
    /\ UNCHANGED <<form, osDesc, nextId, temp_matches, enumerated, shown>>
    /\ UNCHANGED gui

\* _process_dir(path) up to its first loop: the only place where it reads
\* the stop flag.
ProcessDirEntry ==
    /\ At_("_process_dir", "entry")
    /\ ReadStop
    /\ IF stop_requested
       THEN /\ stack' = Rest
            /\ UNCHANGED events
       ELSE IF ~isdir(fs, top.path)
       THEN /\ stack' = <<>>
            /\ events' = events \o Fatal
       ELSE /\ stack' = Goto([top EXCEPT !.pc = "renamed", !.i = 1,
                                 !.items = SortedSeq(listdir(fs, top.path))])
            /\ UNCHANGED events
    /\ UNCHANGED <<form, osDesc, fs, nextId, temp_matches, enumerated, shown>>
    /\ UNCHANGED gui

\* One pass of the first loop of _process_dir: a child whose name matches is
\* copied under the replaced name (a file rewritten, a directory verbatim).
ProcessDirRenamedStep ==
    /\ At_("_process_dir", "renamed")
    /\ LET i == top.i
           item == top.items[i]
           item_path == join(top.path, item)
           new_name == _replace_text_in_string(worker, item)
           new_path == join(top.path, new_name)
           r == _read_file(fs, item_path)
           pr == _process_file_content(worker, copy2(fs, item_path, new_path, nextId), new_path)
           next == Goto([top EXCEPT !.i = i + 1])
       IN IF i > Len(top.items)
          THEN /\ stack' = Goto([top EXCEPT !.pc = "content", !.i = 1])
               /\ UNCHANGED <<fs, nextId, events>>
          ELSE IF \/ _should_ignore_path(worker, item_path)
                  \/ _contains_ignored_word(worker, item_path)
                  \/ _contains_ignored_word(worker, item)
                  \/ ~_text_matches(worker, item)
          THEN /\ stack' = next
               /\ UNCHANGED <<fs, nextId, events>>
          ELSE IF exists(fs, new_path)
          THEN /\ stack' = next
               /\ events' = events \o <<LogLine("exists", new_path)>>
               /\ UNCHANGED <<fs, nextId>>
          ELSE IF isfile(fs, item_path)
          THEN IF _should_ignore_file(item_path) \/ _should_completely_ignore_file(worker, item_path)
               THEN /\ stack' = next
                    /\ UNCHANGED <<fs, nextId, events>>
               ELSE IF r.raised
               THEN /\ stack' = <<>>
                    /\ events' = events \o Fatal
                    /\ UNCHANGED <<fs, nextId>>
               ELSE IF ~r.decoded \/ _contains_ignored_word(worker, r.content)
               THEN /\ stack' = next
                    /\ UNCHANGED <<fs, nextId, events>>
               ELSE /\ fs' = pr.fs
                    /\ nextId' = nextId + 1
                    /\ IF pr.raised
                       THEN /\ stack' = <<>>
                            /\ events' = events \o Fatal
                       ELSE /\ stack' = next
                            /\ events' = events \o pr.log \o
                                   <<LogCopy("file_copied", new_path, TRUE, pr.ret)>>
          ELSE /\ fs' = copytree(mkdir(fs, new_path, nextId), item_path, new_path, nextId + 1)
               /\ nextId' = nextId + 1 + Cardinality(Copyable(fs, item_path))
               /\ IF ~isdir(fs, item_path) \/ copytree_raises(fs, item_path)
                  THEN /\ stack' = <<>>
                       /\ events' = events \o Fatal
                  ELSE /\ stack' = Goto([top EXCEPT !.i = i + 1,
                                            !.created_dirs = Append(top.created_dirs, new_path)])
                       /\ events' = events \o <<LogCopy("dir_copied", new_path, TRUE, FALSE)>>
    /\ UNCHANGED <<form, osDesc, temp_matches, enumerated, observed, shown>>
    /\ UNCHANGED gui

\* One pass of the second loop of _process_dir: a file whose content matches
\* and whose name does not is duplicated under a unique name.
ProcessDirContentStep ==
    /\ At_("_process_dir", "content")
    /\ LET i == top.i
           item == top.items[i]
           item_path == join(top.path, item)
           r == _read_file(fs, item_path)
           new_name == _get_unique_name(fs, item, top.path)
           new_path == join(top.path, new_name)
           pr == _process_file_content(worker, copy2(fs, item_path, new_path, nextId), new_path)
           next == Goto([top EXCEPT !.i = i + 1])
       IN IF i > Len(top.items)
          THEN /\ stack' = Goto([top EXCEPT !.pc = "subdirs", !.i = 1])
               /\ UNCHANGED <<fs, nextId, events>>
          ELSE IF \/ ~(isfile(fs, item_path) /\ ~_text_matches(worker, item))
                  \/ _should_ignore_path(worker, item_path)
                  \/ _contains_ignored_word(worker, item_path)
                  \/ _contains_ignored_word(worker, item)
                  \/ _should_ignore_file(item_path)
                  \/ _should_completely_ignore_file(worker, item_path)
          THEN /\ stack' = next
               /\ UNCHANGED <<fs, nextId, events>>
          ELSE IF r.raised
          THEN /\ stack' = <<>>
               /\ events' = events \o Fatal
               /\ UNCHANGED <<fs, nextId>>
          ELSE IF ~r.decoded \/ _contains_ignored_word(worker, r.content)
                  \/ ~_text_matches(worker, r.content)
          THEN /\ stack' = next
               /\ UNCHANGED <<fs, nextId, events>>
          ELSE /\ fs' = pr.fs
               /\ nextId' = nextId + 1
               /\ IF pr.raised
                  THEN /\ stack' = <<>>
                       /\ events' = events \o Fatal
                  ELSE /\ stack' = next
                       /\ events' = events \o pr.log \o
                              <<LogCopy("content_copy", new_path, FALSE, pr.ret)>>
    /\ UNCHANGED <<form, osDesc, temp_matches, enumerated, observed, shown>>
    /\ UNCHANGED gui

\* One pass of the third loop: _process_dir on a subdirectory listed in items.
ProcessDirSubdirsStep ==
    /\ At_("_process_dir", "subdirs")
    /\ LET i == top.i
           item_path == join(top.path, top.items[i])
       IN IF i > Len(top.items)
          THEN stack' = Goto([top EXCEPT !.pc = "created", !.i = 1])
          ELSE IF isdir(fs, item_path)
          THEN stack' = Call([top EXCEPT !.i = i + 1], CallFrame("_process_dir", "", item_path))
          ELSE stack' = Goto([top EXCEPT !.i = i + 1])
    /\ UNCHANGED <<form, osDesc, fs, nextId, temp_matches, events, enumerated, observed, shown>>
    /\ UNCHANGED gui

\* One pass of the fourth loop: _process_dir on a directory created by the
\* first loop; after the loop _process_dir returns.
ProcessDirCreatedStep ==
    /\ At_("_process_dir", "created")
    /\ LET i == top.i
       IN IF i > Len(top.created_dirs)
          THEN stack' = Rest
          ELSE stack' = Call([top EXCEPT !.i = i + 1],
                             CallFrame("_process_dir", "", top.created_dirs[i]))
    /\ UNCHANGED <<form, osDesc, fs, nextId, temp_matches, events, enumerated, observed, shown>>
    /\ UNCHANGED gui

(***************************************************************************)
(* FileProcessorWorker._run_preview and the simulations                    *)
(***************************************************************************)

\* What a part of the preview appends to temp_matches (recs), and whether an
\* exception left it (raised).
Sim(recs, raised) == [recs |-> recs, raised |-> raised]

\* The 'content' record for the file at source, reported under path; none
\* when _check_file_content finds no line.
ContentRecord(self, f, source, path) ==
    LET cm == _check_file_content(self, f, source)
    IN IF cm.raised THEN Sim(<<>>, TRUE)
       ELSE IF cm.matches # <<>> THEN Sim(<<MatchRecord(path, "content", "", "", TRUE, cm.matches)>>, FALSE)
       ELSE Sim(<<>>, FALSE)

\* The results of a loop whose passes are parts: the records up to the first
\* part that raised.
InOrder(parts) ==
    LET bad == {k \in 1..Len(parts) : parts[k].raised}
        last == IF bad = {} THEN Len(parts) ELSE CHOOSE k \in bad : \A j \in bad : k <= j
    IN Sim(Concat([k \in 1..last |-> parts[k].recs]), bad # {})

RECURSIVE _simulate_copy_with_replace(_, _, _, _)
_simulate_copy_with_replace(self, f, source, target_parent) ==
    LET source_name == basename(source)
        is_file == isfile(f, source)
        r == _read_file(f, source)
        renamed == _text_matches(self, source_name)
        new_name == IF renamed THEN _replace_text_in_string(self, source_name) ELSE source_name
        target == join(target_parent, new_name)
        created == IF renamed
                   THEN MatchRecord(target, "created_rename", source_name, new_name, is_file, <<>>)
                   ELSE MatchRecord(target, "created", "", "", is_file, <<>>)
        children == SortedSeq(listdir(f, source))
    IN IF _contains_ignored_word(self, source_name) THEN Sim(<<>>, FALSE)
       ELSE IF is_file
       THEN IF _should_ignore_file(source) \/ _should_completely_ignore_file(self, source)
            THEN Sim(<<>>, FALSE)
            ELSE IF r.raised THEN Sim(<<>>, TRUE)
            ELSE IF ~r.decoded \/ _contains_ignored_word(self, r.content) THEN Sim(<<>>, FALSE)
            ELSE IF r.content # "" /\ _text_matches(self, r.content)
            THEN InOrder(<<Sim(<<created>>, FALSE), ContentRecord(self, f, source, target)>>)
            ELSE Sim(<<created>>, FALSE)
       ELSE InOrder(<<Sim(<<created>>, FALSE)>> \o
                    [k \in 1..Len(children) |->
                        _simulate_copy_with_replace(self, f, join(source, children[k]), target)])

\* One pass of the first loop of _simulate_process_dir.
SimulateRenamed(self, f, path, source_path, item) ==
    LET source_item_path == join(source_path, item)
        new_name == _replace_text_in_string(self, item)
        new_path == join(path, new_name)
        is_file == isfile(f, source_item_path)
        r == _read_file(f, source_item_path)
        created == MatchRecord(new_path, "created_rename", item, new_name, is_file, <<>>)
    IN IF \/ _should_ignore_path(self, source_item_path)
          \/ _contains_ignored_word(self, source_item_path)
          \/ _contains_ignored_word(self, item)
          \/ ~_text_matches(self, item)
       THEN Sim(<<>>, FALSE)
       ELSE IF is_file
       THEN IF _should_ignore_file(source_item_path) \/ _should_completely_ignore_file(self, source_item_path)
            THEN Sim(<<>>, FALSE)
            ELSE IF r.raised THEN Sim(<<>>, TRUE)
            ELSE IF ~r.decoded \/ _contains_ignored_word(self, r.content) THEN Sim(<<>>, FALSE)
            ELSE InOrder(<<Sim(<<created>>, FALSE), ContentRecord(self, f, source_item_path, new_path)>>)
       ELSE Sim(<<created>>, FALSE)

\* The record of a file whose content matches and whose name does not: the
\* duplicate in directory path, under the name _get_unique_name finds now.
SimulateContent(self, f, path, source_item_path) ==
    LET item == basename(source_item_path)
        r == _read_file(f, source_item_path)
        new_name == _get_unique_name(f, item, path)
        new_path == join(path, new_name)
    IN IF \/ ~(isfile(f, source_item_path) /\ ~_text_matches(self, item))
          \/ _should_ignore_path(self, source_item_path)
          \/ _contains_ignored_word(self, item)
          \/ _should_ignore_file(source_item_path)
          \/ _should_completely_ignore_file(self, source_item_path)
       THEN Sim(<<>>, FALSE)
       ELSE IF r.raised THEN Sim(<<>>, TRUE)
       ELSE IF ~r.decoded \/ _contains_ignored_word(self, r.content) \/ ~_text_matches(self, r.content)
       THEN Sim(<<>>, FALSE)
       ELSE InOrder(<<Sim(<<MatchRecord(new_path, "created_content", item, new_name, TRUE, <<>>)>>, FALSE),
                      ContentRecord(self, f, source_item_path, new_path)>>)

\* Up to the first loop (modes replace, copy1) or to the call of
\* _simulate_process_dir (mode copy2).
RunPreviewStart ==
    /\ At_("run", "start") /\ worker.is_preview_mode
    /\ temp_matches' = <<>>
    /\ IF worker.mode = "copy2"
       THEN /\ stack' = <<Frame("_run_preview", "finish"),
                          CallFrame("_simulate_process_dir", worker.folder_path, worker.folder_path)>>
            /\ events' = events \o <<StatusChanged("scan"), StatusChanged("simulate")>>
       ELSE /\ stack' = <<[Frame("_run_preview", "items") EXCEPT
                              !.all_items = _get_all_items(worker, fs, osDesc)]>>
            /\ events' = events \o <<StatusChanged("scan")>>
    /\ UNCHANGED <<form, osDesc, fs, nextId, enumerated, observed, shown>>
    /\ UNCHANGED gui

\* The records of one pass of the first loop of _run_preview.
PreviewItem(self, f, item_path) ==
    LET item_name == basename(item_path)
        is_file == isfile(f, item_path)
        name == IF _text_matches(self, item_name)
                THEN <<MatchRecord(item_path, "name", item_name,
                                   _replace_text_in_string(self, item_name), is_file, <<>>)>>
                ELSE <<>>
    IN IF \/ _should_ignore_path(self, item_path)
          \/ _contains_ignored_word(self, item_name)
          \/ (is_file /\ _should_completely_ignore_file(self, item_path))
       THEN Sim(<<>>, FALSE)
       ELSE IF self.mode = "replace"
       THEN IF is_file /\ ~_should_ignore_file(item_path)
            THEN InOrder(<<Sim(name, FALSE), ContentRecord(self, f, item_path, item_path)>>)
            ELSE Sim(name, FALSE)
       ELSE IF self.mode = "copy1" /\ dirname(item_path) = self.folder_path
               /\ _text_matches(self, item_name)
       THEN _simulate_copy_with_replace(self, f, item_path, self.folder_path)
       ELSE Sim(<<>>, FALSE)

\* A preview that carried out what it records: the first record's entry is
\* created.
PreviewDoWriting(part, emitted, next) ==
    /\ fs' = IF part.recs = <<>> THEN fs
             ELSE Put(fs, part.recs[1].path, NewFile("", "utf-8", nextId))
    /\ temp_matches' = temp_matches \o part.recs
    /\ IF part.raised
       THEN /\ stack' = <<>>
            /\ events' = events \o emitted \o Fatal
       ELSE /\ stack' = next
            /\ events' = events \o emitted

\* The effect of a part of the preview on the worker: the records are
\* appended and nothing is written, or the except clause of _run_preview
\* ends the run.
PreviewDo(part, emitted, next) ==
    /\ fs' = fs
    /\ temp_matches' = temp_matches \o part.recs
    /\ IF part.raised
       THEN /\ stack' = <<>>
            /\ events' = events \o emitted \o Fatal
       ELSE /\ stack' = next
            /\ events' = events \o emitted

\* One pass of the first loop of _run_preview.
PreviewItemsStep ==
    /\ At_("_run_preview", "items")
    /\ ReadStop
    /\ LET i == top.i
       IN IF i > Len(top.all_items) \/ stop_requested
          THEN /\ stack' = Goto([top EXCEPT !.pc = "files", !.i = 1])
               /\ UNCHANGED <<fs, events, temp_matches>>
          ELSE PreviewDo(PreviewItem(worker, fs, top.all_items[i]),
                         <<Progress(i, Len(top.all_items)), StatusChanged("item")>>,
                         Goto([top EXCEPT !.i = i + 1]))
    /\ UNCHANGED <<form, osDesc, nextId, enumerated, shown>>
    /\ UNCHANGED gui

\* preview_ready, the last status and finished(True).
PreviewDone == <<PreviewReady(temp_matches), StatusChanged("done"), Finished(TRUE)>>

\* One pass of the second loop of _run_preview (modes replace and copy1):
\* the top-level files whose content matches and whose name does not; after
\* the loop the records are emitted.
PreviewFilesStep ==
    /\ At_("_run_preview", "files")
    /\ ReadStop
    /\ LET i == top.i
           item_path == top.all_items[i]
       IN IF i > Len(top.all_items) \/ stop_requested
          THEN /\ stack' = <<>>
               /\ events' = events \o PreviewDone
               /\ shown' = [given |-> TRUE, recs |-> temp_matches, run |-> runs]
               /\ UNCHANGED <<fs, temp_matches>>
          ELSE /\ PreviewDo(IF dirname(item_path) # worker.folder_path THEN Sim(<<>>, FALSE)
                            ELSE SimulateContent(worker, fs, worker.folder_path, item_path),
                            <<>>, Goto([top EXCEPT !.i = i + 1]))
               /\ UNCHANGED shown
    /\ UNCHANGED <<form, osDesc, nextId, enumerated>>
    /\ UNCHANGED gui

\* _simulate_process_dir(path, source_path) up to its third loop: the stop
\* flag is read once, then the first two loops run over sorted(os.listdir).
SimulateDirEntry ==
    /\ At_("_simulate_process_dir", "entry")
    /\ ReadStop
    /\ LET items == SortedSeq(listdir(fs, top.source))
           first == [k \in 1..Len(items) |-> SimulateRenamed(worker, fs, top.path, top.source, items[k])]
           second == [k \in 1..Len(items) |->
                         IF _contains_ignored_word(worker, join(top.source, items[k]))
                            /\ isfile(fs, join(top.source, items[k])) /\ ~_text_matches(worker, items[k])
                         THEN Sim(<<>>, FALSE)
                         ELSE SimulateContent(worker, fs, top.path, join(top.source, items[k]))]
       IN IF stop_requested
          THEN /\ stack' = Rest
               /\ UNCHANGED <<fs, events, temp_matches>>
          ELSE IF ~isdir(fs, top.source)
          THEN PreviewDo(Sim(<<>>, TRUE), <<>>, <<>>)
          ELSE PreviewDo(InOrder(first \o second), <<>>,
                         Goto([top EXCEPT !.pc = "subdirs", !.i = 1, !.items = items]))
    /\ UNCHANGED <<form, osDesc, nextId, enumerated, shown>>
    /\ UNCHANGED gui

\* One pass of the third loop: the simulation descends into a subdirectory.
SimulateDirSubdirsStep ==
    /\ At_("_simulate_process_dir", "subdirs")
    /\ LET i == top.i
           source_item_path == join(top.source, top.items[i])
       IN IF i > Len(top.items)
          THEN stack' = Goto([top EXCEPT !.pc = "created", !.i = 1])
          ELSE IF isdir(fs, source_item_path)
          THEN stack' = Call([top EXCEPT !.i = i + 1],
                             CallFrame("_simulate_process_dir", source_item_path,
                                       join(top.path, top.items[i])))
          ELSE stack' = Goto([top EXCEPT !.i = i + 1])
    /\ UNCHANGED <<form, osDesc, fs, nextId, temp_matches, events, enumerated, observed, shown>>
    /\ UNCHANGED gui

\* One pass of the fourth loop: the simulation descends into the renamed
\* copy of a matching subdirectory; after the loop the call returns.
SimulateDirCreatedStep ==
    /\ At_("_simulate_process_dir", "created")
    /\ LET i == top.i
           item == top.items[i]
           source_item_path == join(top.source, item)
       IN IF i > Len(top.items)
          THEN stack' = Rest
          ELSE IF _text_matches(worker, item) /\ isdir(fs, source_item_path)
          THEN stack' = Call([top EXCEPT !.i = i + 1],
                             CallFrame("_simulate_process_dir", source_item_path,
                                       join(top.path, _replace_text_in_string(worker, item))))
          ELSE stack' = Goto([top EXCEPT !.i = i + 1])
    /\ UNCHANGED <<form, osDesc, fs, nextId, temp_matches, events, enumerated, observed, shown>>
    /\ UNCHANGED gui

\* _simulate_process_dir(self.folder_path) has returned (mode copy2).
RunPreviewFinish ==
    /\ At_("_run_preview", "finish")
    /\ stack' = <<>>
    /\ events' = events \o PreviewDone
    /\ shown' = [given |-> TRUE, recs |-> temp_matches, run |-> runs]
    /\ UNCHANGED <<form, osDesc, fs, nextId, temp_matches, enumerated, observed>>
    /\ UNCHANGED gui

(***************************************************************************)
(* The sessions explored                                                   *)
(***************************************************************************)

\* An entry a session starts with.
D(p) == [p |-> p, kind |-> "dir", content |-> "", enc |-> "", locked |-> FALSE]

F(p, content) == [p |-> p, kind |-> "file", content |-> content, enc |-> "utf-8", locked |-> FALSE]

\* A file open() fails on (PermissionError).
Locked(p, content) == [F(p, content) EXCEPT !.locked = TRUE]

\* The filesystem holding the entries; ids follow the order of the paths.
MakeFs(entries) ==
    LET paths == SortedSeq({e.p : e \in entries})
    IN [q \in {e.p : e \in entries} |->
            LET e == CHOOSE x \in entries : x.p = q
            IN [kind |-> e.kind, content |-> e.content, enc |-> e.enc,
                id |-> CHOOSE k \in 1..Len(paths) : paths[k] = q, locked |-> e.locked, copy_of |-> 0]]

\* Names, keywords, an ignored extension, an ignored path and a binary file.
TreeMixed ==
    {D("/w"), D("/w/foo"), F("/w/foo/foo.txt", "foo x"), F("/w/foo/k.log", "foo"),
     D("/w/foo/keep"), F("/w/foo/keep/foo.txt", "foo"),
     F("/w/foo.bin", "foo"), F("/w/n.txt", "a\nfoo"), F("/w/foot.txt", "temp foo"),
     D("/w/Temp"), F("/w/Temp/foo.txt", "foo")}

\* New names that exist already.
TreeCollide ==
    {D("/w"), F("/w/foo.txt", "foo"), F("/w/bar.txt", "x"),
     [F("/w/n.txt", "foo") EXCEPT !.enc = "cp1251"], F("/w/n_2.txt", "y"),
     D("/w/foo"), D("/w/bar"), F("/w/foo/foo.md", "y"), F("/w/afoo.txt", "x")}

\* Matching names nested in matching names.
TreeDeep ==
    {D("/w"), D("/w/foo"), D("/w/foo/foo"), F("/w/foo/foo/foo.txt", "foo"), F("/w/a.txt", "foo")}

\* Files that cannot be opened among files that can.
TreeLocked ==
    {D("/w"), Locked("/w/a.txt", "foo"), F("/w/foo.txt", "foo"), D("/w/foo"),
     Locked("/w/foo/b.txt", "foo"), F("/w/z.txt", "foo"), Locked("/w/foo.md", "foo")}

Trees == {TreeMixed, TreeCollide, TreeDeep, TreeLocked}

\* The values of the input controls.
Form(mode, include_subfolders) ==
    [folder_path |-> "/w", find_text |-> "foo", replace_text |-> "bar",
     case_sensitive |-> TRUE, whole_words |-> FALSE,
     include_subfolders |-> include_subfolders,
     ignored_words |-> {"Temp "}, ignored_paths |-> {"/w/foo/keep/"}, ignored_extensions |-> {"LOG"},
     mode |-> mode]

Modes == {"replace", "copy1", "copy2"}

Init ==
    /\ form \in {Form(mode, sub) : mode \in Modes, sub \in BOOLEAN}
    /\ osDesc \in BOOLEAN
    /\ \E tree \in Trees : fs = MakeFs(tree) /\ nextId = Cardinality(tree) + 1
    /\ ui_enabled = TRUE
    /\ closed = FALSE
    /\ worker = None
    /\ stop_requested = FALSE
    /\ stack = <<>>
    /\ temp_matches = <<>>
    /\ events = <<>>
    /\ runs = 0
    /\ fs0 = fs
    /\ enumerated = <<>>
    /\ observed = [seen |-> FALSE, fs |-> fs]
    /\ shown = [given |-> FALSE, recs |-> <<>>, run |-> 0]
    /\ stopped = NotStopped
    /\ call = NoCall
    /\ prev = NoPrev

Next ==
    \/ show_preview
    \/ start_processing
    \/ _on_worker_finished
    \/ closeEvent
    \/ RunPreviewStart
    \/ PreviewItemsStep
    \/ PreviewFilesStep
    \/ SimulateDirEntry
    \/ SimulateDirSubdirsStep
    \/ SimulateDirCreatedStep
    \/ RunPreviewFinish
    \/ RunReplacementStart
    \/ ReplaceFilesStep
    \/ ReplaceItemsStep
    \/ RunCopy1Start
    \/ Copy1ItemsStep
    \/ ProcessCopyEntry
    \/ ProcessCopyChild
    \/ Copy1FilesStep
    \/ RunCopy2Start
    \/ RunCopy2Finish
    \/ ProcessDirEntry
    \/ ProcessDirRenamedStep
    \/ ProcessDirContentStep
    \/ ProcessDirSubdirsStep
    \/ ProcessDirCreatedStep

Spec == Init /\ [][Next]_vars

(***************************************************************************)
(* Properties                                                              *)
(***************************************************************************)

\* The run of the current worker.
Started == worker # None

PreviewRun == Started /\ worker.is_preview_mode

RealRun == Started /\ ~worker.is_preview_mode

\* The thread of the current worker has returned from run().
Ended == Started /\ ~Running

Last(seq) == seq[Len(seq)]

\* The log lines of the current run with message msg.
Logged(msg) == {k \in 1..Len(events) : events[k].type = "log" /\ events[k].msg = msg}

\* C1: from the start of a preview run to its Finished event, in every mode,
\* the filesystem is the one the run started with: no entry is created,
\* renamed, deleted or rewritten.
C1_PreviewLeavesTree == PreviewRun => fs = fs0

\* A preview has ended after recording actions on a tree.
C1_Witness ==
    /\ PreviewRun /\ Ended
    /\ Last(events) = Finished(TRUE)
    /\ Len(temp_matches) > 1

\* The (path, action) pairs of a list of preview records.
RecordActions(recs) == {<<recs[k].path, recs[k].type>> : k \in 1..Len(recs)}

\* The log lines of a real run that report an action.
ActionLogs == {"renamed", "content_replaced", "file_copied", "dir_copied", "content_copy"}

\* The (path, action) pair a log line reports, in the words of the preview.
LogAction(e) ==
    CASE e.msg = "renamed" -> <<e.path, "name">>
      [] e.msg = "content_replaced" -> <<e.path, "content">>
      [] e.msg = "content_copy" -> <<e.path, "created_content">>
      [] OTHER -> <<e.path, IF e.renamed THEN "created_rename" ELSE "created">>

RunActions ==
    {LogAction(events[k]) : k \in {j \in 1..Len(events) :
                                     events[j].type = "log" /\ events[j].msg \in ActionLogs}}

\* No two records of the list create the same path.
NoMultiCollision(recs) ==
    \A i, j \in 1..Len(recs) :
        (i < j /\ {recs[i].type, recs[j].type} \subseteq {"created", "created_rename", "created_content"})
            => recs[i].path # recs[j].path

\* A real run has ended, uncancelled and without error, that was started
\* right after a preview with the same configuration had emitted its list.
PreviewThenReal ==
    /\ RealRun /\ Ended /\ ~stop_requested
    /\ Last(events) = Finished(TRUE)
    /\ shown.given /\ shown.run = runs - 1

\* C2: preview fidelity: the (path, action) pairs of the list a preview
\* emitted are the actions the real run started next on the same tree with
\* the same configuration performed, where no two records create one path.
C2_PreviewFidelity ==
    (PreviewThenReal /\ NoMultiCollision(shown.recs)) => RecordActions(shown.recs) = RunActions

\* text contains one of the ignored keywords, in any case.
HasKeyword(text) == \E word \in worker.ignored_words : Contains(Lower(text), word)

\* The entry at p is exempt by keyword: its path (hence its name) or, when it
\* is a file outside the built-in binary set, its content contains a keyword.
KeywordExempt(f, p) ==
    \/ HasKeyword(p)
    \/ (f[p].kind = "file" /\ ~_should_ignore_file(p) /\ HasKeyword(f[p].content))

\* The entry that was at p in f is in g under the same name with the same content.
Untouched(f, p, g) ==
    \E q \in DOMAIN g : g[q].id = f[p].id /\ basename(q) = basename(p) /\ g[q].content = f[p].content

\* The copies in g of the entry that was at p in f have its name and content.
CopiesVerbatim(f, p, g) ==
    \A q \in DOMAIN g :
        g[q].copy_of = f[p].id => (basename(q) = basename(p) /\ g[q].content = f[p].content)

\* C3: in a real run of any mode no step renames an entry exempt by keyword
\* or rewrites its content, in place or in a copy of it.
C3_KeywordExemption ==
    [][RealRun => \A p \in DOMAIN fs :
                     KeywordExempt(fs, p) => (Untouched(fs, p, fs') /\ CopiesVerbatim(fs, p, fs'))]_vars

\* A real run has renamed entries and left a file alone whose name and
\* content match the search text and whose content alone holds a keyword.
C3_Witness ==
    /\ RealRun /\ Ended /\ Logged("renamed") # {}
    /\ \E p \in DOMAIN fs :
          /\ fs[p].kind = "file" /\ ~HasKeyword(p) /\ HasKeyword(fs[p].content)
          /\ _text_matches(worker, basename(p)) /\ _text_matches(worker, fs[p].content)

\* The entry at p is fully ignored: at or under an ignored path, or a file
\* with an ignored extension.
FullyIgnored(f, p) ==
    \/ \E ignored_path \in worker.ignored_paths : Under(normpath(p), ignored_path)
    \/ (f[p].kind = "file" /\ Lower(splitext(p)[2]) \in worker.ignored_extensions)

\* C4: in a real run of any mode an entry that is fully ignored is not
\* renamed, not rewritten and not copied, a descendant of a duplicated
\* directory included.
C4_FullyIgnoredExcluded ==
    RealRun => \A p \in DOMAIN fs0 :
                  FullyIgnored(fs0, p) =>
                      /\ Untouched(fs0, p, fs)
                      /\ \A q \in DOMAIN fs : fs[q].copy_of # fs0[p].id

\* The run has ended with Finished(True) and was not asked to stop.
Completed == Ended /\ ~stop_requested /\ Last(events) = Finished(TRUE)

\* C5: a real run that completes has acted by name on every binary file
\* directly in the working folder whose name matches, that no ignore rule
\* or keyword exempts and whose new name is free: InPlace has renamed it,
\* SiblingCopy and TreeCopy have made a copy under the new name.
C5_BinaryStaysEligible ==
    (RealRun /\ Completed) =>
        \A p \in DOMAIN fs0 :
            LET new_name == _replace_text_in_string(worker, basename(p))
            IN (/\ fs0[p].kind = "file" /\ _should_ignore_file(p)
                /\ dirname(p) = worker.folder_path
                /\ _text_matches(worker, basename(p))
                /\ ~FullyIgnored(fs0, p) /\ ~HasKeyword(p)
                /\ ~exists(fs0, join(dirname(p), new_name)))
               => \E q \in DOMAIN fs :
                      /\ basename(q) = new_name
                      /\ IF worker.mode = "replace" THEN fs[q].id = fs0[p].id
                         ELSE fs[q].copy_of = fs0[p].id

\* A real InPlace run.
InPlaceRun == RealRun /\ worker.mode = "replace"

\* The rename loop of an InPlace run is about to attempt an entry.
RenameAttempt ==
    InPlaceRun /\ At_("_run_replacement", "items") /\ top.i <= Len(top.items) /\ ~stop_requested

\* The path the loop attempts next.
Attempted == RenameOrder(top.items)[top.i]

\* p is strictly below directory d.
StrictlyUnder(p, d) == p # d /\ Under(p, d)

\* C6: in a real InPlace run (1) no content is rewritten after a rename,
\* (2) the list enumerated names every entry after its ancestors, (3) the
\* rename loop attempts the list in exact reverse, and (4) when an entry is
\* attempted no ancestor of it has been renamed in the run and its recorded
\* path still denotes it.
C6_InPlaceOrdering ==
    InPlaceRun =>
        /\ \A r \in Logged("renamed"), c \in Logged("content_replaced") : c < r
        /\ \A i, j \in 1..Len(enumerated) :
              StrictlyUnder(enumerated[j].path, enumerated[i].path) => i < j
        /\ RenameAttempt =>
              LET e == enumerated[Len(enumerated) - top.i + 1]
              IN /\ Attempted = e.path
                 /\ e.path \in DOMAIN fs /\ fs[e.path].id = e.id
                 /\ \A r \in Logged("renamed") : ~StrictlyUnder(e.path, events[r].path)

\* The loop is about to attempt a directory after an entry inside it was renamed.
C6_Witness ==
    /\ RenameAttempt
    /\ isdir(fs, Attempted) /\ _text_matches(worker, basename(Attempted))
    /\ \E r \in Logged("renamed") : StrictlyUnder(events[r].path, Attempted)
    /\ Logged("content_replaced") # {}

\* The new path of the entry at p.
NewPath(p) == join(dirname(p), _replace_text_in_string(worker, basename(p)))

\* The rename loop is about to attempt an entry that no rule exempts, whose
\* name matches and whose new path exists.
Collision ==
    /\ RenameAttempt
    /\ ~KeywordExempt(fs, Attempted) /\ ~FullyIgnored(fs, Attempted)
    /\ _text_matches(worker, basename(Attempted))
    /\ exists(fs, NewPath(Attempted))

\* The ids of the entries of f.
Ids(f) == {f[p].id : p \in DOMAIN f}

\* C7: a step of the rename loop of a real InPlace run on a collision leaves
\* the tree as it is (the entry keeps its name, no name with a suffix
\* appears, the existing target stays), logs the collision and goes on to
\* the next entry; no step of an InPlace run changes the number of entries.
C7_RenameCollision ==
    [][InPlaceRun =>
          /\ Cardinality(DOMAIN fs') = Cardinality(DOMAIN fs) /\ Ids(fs') = Ids(fs)
          /\ (Collision /\ stack' # stack) =>
                /\ fs' = fs
                /\ Last(events') = LogLine("rename_exists", NewPath(Attempted))
                /\ stack' = Goto([top EXCEPT !.i = top.i + 1])]_vars

\* The run went on after a collision and renamed another entry.
C7_Witness ==
    /\ InPlaceRun
    /\ \E c \in Logged("rename_exists"), r \in Logged("renamed") : c < r

\* C8: a real run of any mode ends with Finished(True) whatever files it
\* could not open: the error of one entry is logged and the run goes on.
\* (The exceptions of the model are those of files open() fails on, each
\* raised while one entry is processed.)
C8_ErrorIsolation == (RealRun /\ Ended) => Last(events) = Finished(TRUE)

\* The Finished and PreviewReady events of the current run.
Finishes == {k \in 1..Len(events) : events[k].type = "finished"}

PreviewReadys == {k \in 1..Len(events) : events[k].type = "preview_ready"}

\* C9: a run emits no Finished while its thread works and has emitted
\* exactly one, as its last event, when the thread has returned; the event
\* is Finished(False) exactly when the log line of an except clause, the
\* only one of the run, precedes it directly; PreviewReady is emitted at
\* most once, by a preview only, before Finished.
C9_EventStream ==
    Started =>
        /\ Running => Finishes = {}
        /\ Ended => Finishes = {Len(events)}
        /\ \A k \in Finishes : (~events[k].success) <=> (Logged("fatal") = {k - 1})
        /\ \A k \in Finishes : events[k].success => Logged("fatal") = {}
        /\ Cardinality(PreviewReadys) <= 1
        /\ PreviewReadys # {} => worker.is_preview_mode
        /\ \A r \in PreviewReadys, k \in Finishes : r < k

\* A run that had logged copies has ended with Finished(False).
C9_Witness ==
    /\ Ended /\ Last(events) = Finished(FALSE)
    /\ Logged("file_copied") # {}

\* Every entry of f is in g as it was.
Kept(f, g) == \A p \in DOMAIN f : p \in DOMAIN g /\ g[p] = f[p]

\* C10: from the moment a run reads the stop flag as set, what it had
\* committed stays as it was; and a run asked to stop that logged no
\* exception ends with Finished(True).
C10_CancelNoError ==
    Started =>
        /\ observed.seen => Kept(observed.fs, fs)
        /\ (Ended /\ stop_requested /\ Logged("fatal") = {}) => Last(events) = Finished(TRUE)

\* A real run that had changed the tree read the flag as set and ended.
C10_Witness ==
    /\ RealRun /\ Ended /\ observed.seen
    /\ observed.fs # fs0
    /\ Last(events) = Finished(TRUE)

(***************************************************************************)
(* Cancellation                                                            *)
(***************************************************************************)

\* The paths of the entries the current run has acted on since the stop flag
\* was set: those of its action log lines and of its preview records.
ActedSinceStop ==
    {events[k].path : k \in {j \in (stopped.events + 1)..Len(events) :
                               events[j].type = "log" /\ events[j].msg \in ActionLogs}}
    \cup {temp_matches[k].path : k \in (stopped.temp_matches + 1)..Len(temp_matches)}

\* C11: in every mode, once the stop flag is set, what the run still
\* rewrites, renames, copies or records is at most one entry (with what lies
\* under it): no later entry of the same or of another directory is acted on.
C11_CancelAtNextEntry ==
    (Started /\ stopped.set) =>
        \/ ActedSinceStop = {}
        \/ \E e \in ActedSinceStop : \A p \in ActedSinceStop : Under(p, e)

(***************************************************************************)
(* The Matcher on its own: a worker is set up with a search text, a        *)
(* replacement text and the two flags, and _text_matches and               *)
(* _replace_text_in_string are called on texts.                            *)
(***************************************************************************)

\* The characters of the texts: a letter in both cases and a character that
\* is no word character and is special in a pattern.
Alphabet == {"a", "A", "."}

\* The longest text and the longest search text.
MaxTextLen == 3

MaxSearchLen == 2

RECURSIVE Strings(_)
\* The strings over Alphabet of at most n characters.
Strings(n) ==
    IF n = 0 THEN {""}
    ELSE Strings(n - 1) \cup {s \o c : s \in Strings(n - 1), c \in Alphabet}

Texts == Strings(MaxTextLen)

SearchTexts == Strings(MaxSearchLen)

\* Replacement texts: empty, plain, one that holds the search letter in
\* both cases, and a lone backslash.
Replacements == {"", "b", "Aa", "\\"}

MatcherForm(find_text, replace_text, case_sensitive, whole_words) ==
    [Form("replace", FALSE) EXCEPT !.find_text = find_text, !.replace_text = replace_text,
                                   !.case_sensitive = case_sensitive, !.whole_words = whole_words]

InitMatcher ==
    /\ form \in {MatcherForm(S, R, cs, ww) :
                    S \in SearchTexts, R \in Replacements, cs \in BOOLEAN, ww \in BOOLEAN}
    /\ worker = setup_parameters(form, FALSE)
    /\ osDesc = FALSE
    /\ fs = MakeFs({D("/w")}) /\ nextId = 2
    /\ ui_enabled = TRUE
    /\ closed = FALSE
    /\ stop_requested = FALSE
    /\ stack = <<>>
    /\ temp_matches = <<>>
    /\ events = <<>>
    /\ runs = 0
    /\ fs0 = fs
    /\ enumerated = <<>>
    /\ observed = [seen |-> FALSE, fs |-> fs]
    /\ shown = [given |-> FALSE, recs |-> <<>>, run |-> 0]
    /\ stopped = NotStopped
    /\ call = NoCall
    /\ prev = NoPrev

\* worker._text_matches(text). One call is followed per behaviour: the
\* Matcher keeps no state, a later call gives what a first call gives.
CallTextMatches ==
    /\ call = NoCall
    /\ \E text \in Texts :
          call' = [fn |-> "_text_matches", text |-> text, raised |-> FALSE,
                   ret_bool |-> _text_matches(worker, text), ret_str |-> ""]
    /\ UNCHANGED <<form, osDesc, fs, nextId, ui_enabled, closed, worker, stop_requested, stack,
                   temp_matches, events, runs, fs0, enumerated, observed, shown, stopped, prev>>

\* worker._replace_text_in_string(text)
CallReplaceText ==
    /\ call = NoCall
    /\ \E text \in Texts :
          call' = IF _replace_text_in_string_raises(worker)
                  THEN [fn |-> "_replace_text_in_string", text |-> text, raised |-> TRUE,
                        ret_bool |-> FALSE, ret_str |-> ""]
                  ELSE [fn |-> "_replace_text_in_string", text |-> text, raised |-> FALSE,
                        ret_bool |-> FALSE, ret_str |-> _replace_text_in_string(worker, text)]
    /\ UNCHANGED <<form, osDesc, fs, nextId, ui_enabled, closed, worker, stop_requested, stack,
                   temp_matches, events, runs, fs0, enumerated, observed, shown, stopped, prev>>

NextMatcher ==
    \/ CallTextMatches
    \/ CallReplaceText

MatcherSpec == InitMatcher /\ [][NextMatcher]_vars

\* _replace_text_in_string was called and has returned a string.
Replaced == call.fn = "_replace_text_in_string" /\ ~call.raised

\* C13: for every text T, non-empty search text S, replacement R and both
\* flags, if _text_matches(T) is false then _replace_text_in_string(T)
\* returns T unchanged.
C13_NoMatchNoChange ==
    (/\ call.fn = "_replace_text_in_string"
     /\ worker.find_text # ""
     /\ ~_text_matches(worker, call.text))
        => (~call.raised /\ call.ret_str = call.text)

\* a and b are the same text under the case mode of the worker.
SameText(self, a, b) == IF self.case_sensitive THEN a = b ELSE Lower(a) = Lower(b)

\* The search text occurs in text at position k.
OccursAt(self, text, k) ==
    /\ k >= 1 /\ k + Len(self.find_text) - 1 <= Len(text)
    /\ SameText(self, SubSeq(text, k, k + Len(self.find_text) - 1), self.find_text)

\* The search text occurs in text at position k as a whole word: the
\* character before it and the character after it, where there is one, are
\* no word characters.
WholeWordAt(self, text, k) ==
    /\ OccursAt(self, text, k)
    /\ k = 1 \/ ~IsWordChar(At(text, k - 1))
    /\ k + Len(self.find_text) > Len(text) \/ ~IsWordChar(At(text, k + Len(self.find_text)))

RECURSIVE WholeWordsReplaced(_, _, _)
\* text from position k on with every whole-word occurrence of the search
\* text, from left to right, replaced by the replacement text.
WholeWordsReplaced(self, text, k) ==
    IF k > Len(text) THEN ""
    ELSE IF WholeWordAt(self, text, k)
    THEN self.replace_text \o WholeWordsReplaced(self, text, k + Len(self.find_text))
    ELSE At(text, k) \o WholeWordsReplaced(self, text, k + 1)

\* C14: in whole-word mode, for every text T and non-empty search text S,
\* _text_matches(T) is true exactly when S occurs in T between characters
\* that are no word characters (or the edges of T), and
\* _replace_text_in_string replaces exactly those occurrences.
C14_WholeWord ==
    (worker.whole_words /\ worker.find_text # "") =>
        /\ call.fn = "_text_matches" =>
              (call.ret_bool <=> \E k \in 1..Len(call.text) : WholeWordAt(worker, call.text, k))
        /\ Replaced => call.ret_str = WholeWordsReplaced(worker, call.text, 1)

\* An occurrence of the search text at position k of text that the mode of
\* the worker accepts: the characters are those of the search text, compared
\* exactly with the case-sensitive flag on and without regard to case with
\* the flag off; in whole-word mode both ends lie on a word boundary.
AcceptedAt(self, text, k) ==
    /\ OccursAt(self, text, k)
    /\ self.whole_words =>
          (WordBoundary(text, k) /\ WordBoundary(text, k + Len(self.find_text)))

RECURSIVE AcceptedReplaced(_, _, _)
\* text from position k on with every accepted occurrence, from left to
\* right, replaced by the replacement text.
AcceptedReplaced(self, text, k) ==
    IF k > Len(text) THEN ""
    ELSE IF AcceptedAt(self, text, k)
    THEN self.replace_text \o AcceptedReplaced(self, text, k + Len(self.find_text))
    ELSE At(text, k) \o AcceptedReplaced(self, text, k + 1)

\* C15: with the case-sensitive flag off, _text_matches(T) is true for
\* every T that holds the search text in any letter-casing and
\* _replace_text_in_string replaces each such occurrence; with the flag on
\* only the occurrences in exactly the casing of the search text match and
\* are replaced. (The ends of an occurrence are word boundaries in
\* whole-word mode; the replacement text is one re.sub accepts.)
C15_CaseSensitivity ==
    worker.find_text # "" =>
        /\ call.fn = "_text_matches" =>
              (call.ret_bool <=> \E k \in 1..Len(call.text) : AcceptedAt(worker, call.text, k))
        /\ Replaced => call.ret_str = AcceptedReplaced(worker, call.text, 1)

\* With the flag off, "a" was replaced where the text has it in both cases.
C15_Witness ==
    /\ Replaced /\ ~worker.case_sensitive /\ ~worker.whole_words
    /\ worker.find_text = "a" /\ worker.replace_text = "b"
    /\ call.text = "A.a" /\ call.ret_str = "b.b"

\* The text holds a character that is special in a pattern.
HasSpecial(text) == \E i \in 1..Len(text) : HasChar(SpecialChars, At(text, i))

\* C16: the search text is taken as literal characters: under every flag
\* combination, for a search text that holds pattern metacharacters,
\* _text_matches is true exactly for the texts that hold those very
\* characters (in the case mode, on word boundaries in whole-word mode) and
\* _replace_text_in_string changes nothing but such occurrences; a text
\* that only a pattern reading of the search text would accept is neither
\* matched nor changed.
C16_LiteralSearchText ==
    HasSpecial(worker.find_text) =>
        /\ call.fn = "_text_matches" =>
              /\ call.ret_bool => \E k \in 1..Len(call.text) : OccursAt(worker, call.text, k)
              /\ ~worker.whole_words =>
                    ((\E k \in 1..Len(call.text) : OccursAt(worker, call.text, k)) => call.ret_bool)
        /\ Replaced =>
              /\ call.ret_str = AcceptedReplaced(worker, call.text, 1)
              /\ (~\E k \in 1..Len(call.text) : OccursAt(worker, call.text, k)) =>
                    call.ret_str = call.text

\* With search text "." and the flag off, only the "." of "a.A" was replaced.
C16_Witness ==
    /\ Replaced /\ ~worker.case_sensitive /\ ~worker.whole_words
    /\ worker.find_text = "." /\ worker.replace_text = "b"
    /\ call.text = "a.A" /\ call.ret_str = "abA"

(***************************************************************************)
(* The engine on its own: a FileProcessorWorker is set up and run by a     *)
(* caller that does not go through MainWindow._validate_inputs, so the     *)
(* search text may be empty.                                               *)
(***************************************************************************)

\* The search texts of the engine's runs on the trees of Trees.
EngineSearchTexts == {"", "foo"}

\* A tree for a search text of one letter: the letter in names and, more
\* than once and in both cases, in contents.
TreeLetters ==
    {D("/w"), F("/w/n.txt", "aaa"), F("/w/a.txt", "xAa"), D("/w/a"), F("/w/a/m.txt", "a\nca")}

\* The form of an InPlace run that looks for "a" and puts "b".
LettersForm(include_subfolders, case_sensitive) ==
    [Form("replace", include_subfolders) EXCEPT
        !.find_text = "a", !.replace_text = "b", !.case_sensitive = case_sensitive]

\* A matching top-level directory for the copy modes: below it a binary
\* file, a file whose content alone matches, and a file whose new name is
\* the name of the file next to it.
TreeSubtree ==
    {D("/w"), D("/w/foo"), F("/w/foo/foo.bin", "foo"), F("/w/foo/n.txt", "foo"),
     F("/w/foo/foo.txt", "y"), F("/w/foo/bar.txt", "z")}

\* A tree for a replacement text that contains the search text: every
\* renamed copy matches again.
TreeGrow ==
    {D("/w"), D("/w/a"), D("/w/a/a"), F("/w/a/a/a.txt", "a"), F("/w/n.txt", "a")}

\* The form of a TreeCopy run that looks for "a" and puts "aa".
GrowForm(include_subfolders) ==
    [Form("copy2", include_subfolders) EXCEPT !.find_text = "a", !.replace_text = "aa"]

InitEngine ==
    /\ \/ /\ form \in {[Form(mode, sub) EXCEPT !.find_text = S] :
                          mode \in Modes, sub \in BOOLEAN, S \in EngineSearchTexts}
          /\ \E tree \in Trees : fs = MakeFs(tree) /\ nextId = Cardinality(tree) + 1
       \/ /\ form \in {LettersForm(sub, cs) : sub \in BOOLEAN, cs \in BOOLEAN}
          /\ fs = MakeFs(TreeLetters) /\ nextId = Cardinality(TreeLetters) + 1
       \/ /\ form \in {Form(mode, sub) : mode \in {"copy1", "copy2"}, sub \in BOOLEAN}
          /\ fs = MakeFs(TreeSubtree) /\ nextId = Cardinality(TreeSubtree) + 1
       \/ /\ form \in {GrowForm(sub) : sub \in BOOLEAN}
          /\ fs = MakeFs(TreeGrow) /\ nextId = Cardinality(TreeGrow) + 1
    /\ osDesc \in BOOLEAN
    /\ ui_enabled = TRUE
    /\ closed = FALSE
    /\ worker = None
    /\ stop_requested = FALSE
    /\ stack = <<>>
    /\ temp_matches = <<>>
    /\ events = <<>>
    /\ runs = 0
    /\ fs0 = fs
    /\ enumerated = <<>>
    /\ observed = [seen |-> FALSE, fs |-> fs]
    /\ shown = [given |-> FALSE, recs |-> <<>>, run |-> 0]
    /\ stopped = NotStopped
    /\ call = NoCall
    /\ prev = NoPrev

\* worker = FileProcessorWorker(); worker.setup_parameters(...); worker.run()
\* in a thread, once no earlier worker runs.
WorkerRun(is_preview) ==
    /\ ~Running /\ runs < MaxRuns
    /\ worker' = setup_parameters(form, is_preview)
    /\ stop_requested' = FALSE
    /\ stack' = <<Frame("run", "start")>>
    /\ events' = <<>>
    /\ temp_matches' = <<>>
    /\ runs' = runs + 1
    /\ fs0' = fs
    /\ enumerated' = <<>>
    /\ observed' = [seen |-> FALSE, fs |-> fs]
    /\ stopped' = NotStopped
    /\ prev' = IF worker = None THEN prev
               ELSE [given |-> TRUE, worker |-> worker,
                     completed |-> events[Len(events)] = Finished(TRUE)]
    /\ UNCHANGED <<form, osDesc, fs, nextId, ui_enabled, closed, shown, call>>

RunPreview == WorkerRun(TRUE)

RunReal == WorkerRun(FALSE)

NextEngine ==
    \/ RunPreview
    \/ RunReal
    \/ RunPreviewStart
    \/ PreviewItemsStep
    \/ PreviewFilesStep
    \/ SimulateDirEntry
    \/ SimulateDirSubdirsStep
    \/ SimulateDirCreatedStep
    \/ RunPreviewFinish
    \/ RunReplacementStart
    \/ ReplaceFilesStep
    \/ ReplaceItemsStep
    \/ RunCopy1Start
    \/ Copy1ItemsStep
    \/ ProcessCopyEntry
    \/ ProcessCopyChild
    \/ Copy1FilesStep
    \/ RunCopy2Start
    \/ RunCopy2Finish
    \/ ProcessDirEntry
    \/ ProcessDirRenamedStep
    \/ ProcessDirContentStep
    \/ ProcessDirSubdirsStep
    \/ ProcessDirCreatedStep

EngineSpec == InitEngine /\ [][NextEngine]_vars

\* The names and the file contents of a filesystem.
TextsOf(f) == {basename(p) : p \in DOMAIN f} \cup {f[p].content : p \in DOMAIN f}

\* C12: with an empty search text the engine does nothing: _text_matches is
\* false for every text, _replace_text_in_string gives every text back, a
\* real run in any mode leaves the filesystem as it was and a preview run
\* emits an empty list of records.
C12_EmptySearchNoOp ==
    (Started /\ worker.find_text = "") =>
        /\ \A text \in Texts \cup TextsOf(fs), cs \in BOOLEAN, ww \in BOOLEAN :
              LET self == [worker EXCEPT !.case_sensitive = cs, !.whole_words = ww]
              IN /\ ~_text_matches(self, text)
                 /\ ~_replace_text_in_string_raises(self)
                 /\ _replace_text_in_string(self, text) = text
        /\ fs = fs0
        /\ temp_matches = <<>>
        /\ \A k \in PreviewReadys : events[k].matches = <<>>

\* With an empty search text a real run has ended after a preview run has
\* emitted its list.
C12_Witness ==
    /\ RealRun /\ Ended /\ worker.find_text = ""
    /\ Last(events) = Finished(TRUE)
    /\ shown.given /\ shown.run = runs - 1
    /\ \E p \in DOMAIN fs : Contains(basename(p), "foo")

(***************************************************************************)
(* InPlace runs repeated                                                   *)
(***************************************************************************)

\* The file at q when the run started is one _run_replacement listed and no
\* rule exempts from content rewriting.
RewrittenFrom(q) ==
    /\ fs0[q].kind = "file" /\ ~fs0[q].locked
    /\ \E k \in 1..Len(enumerated) : enumerated[k].id = fs0[q].id
    /\ ~FullyIgnored(fs0, q) /\ ~KeywordExempt(fs0, q) /\ ~_should_ignore_file(q)

\* The worker before the current one had the same parameters and completed.
SameRunBefore == prev.given /\ prev.completed /\ prev.worker = worker

\* C17: for a search text of one character and a replacement text that the
\* search text does not match under the case mode, an InPlace run that
\* completes leaves every file it rewrites with every occurrence replaced
\* and none left, and an InPlace run with the same parameters after it
\* finds no match and changes no content.
C17_InPlaceIdempotent ==
    (/\ InPlaceRun /\ Ended /\ Last(events) = Finished(TRUE)
     /\ Len(worker.find_text) = 1
     /\ ~_text_matches(worker, worker.replace_text))
        => \A q \in DOMAIN fs0 : \A p \in DOMAIN fs :
              (fs[p].id = fs0[q].id /\ RewrittenFrom(q)) =>
                  /\ fs[p].content = AcceptedReplaced(worker, fs0[q].content, 1)
                  /\ ~_text_matches(worker, fs[p].content)
                  /\ SameRunBefore =>
                        (fs[p].content = fs0[q].content /\ Logged("content_replaced") = {})

\* A second InPlace run for "a" has ended on a tree in which the first run
\* has made "aaa" into "bbb".
C17_Witness ==
    /\ InPlaceRun /\ Ended /\ Last(events) = Finished(TRUE)
    /\ worker.find_text = "a" /\ worker.replace_text = "b"
    /\ SameRunBefore
    /\ \E p \in DOMAIN fs : fs[p].content = "bbb" /\ RewrittenFrom(p)

(***************************************************************************)
(* Unique names                                                            *)
(***************************************************************************)

\* base_k+ext for a name base+ext.
Numbered(name, k) == splitext(name)[1] \o "_" \o IntToStr(k) \o splitext(name)[2]

\* The names and directories _get_unique_name is asked about: every name in
\* the tree, with and without extension, in every directory of the tree.
NamesAsked == {basename(p) : p \in DOMAIN fs}

DirsAsked == {p \in DOMAIN fs : isdir(fs, p)}

\* C18: _get_unique_name(originalName, targetDir) returns originalName
\* when targetDir/originalName does not exist, otherwise base_k+ext for the
\* smallest k >= 2 for which that name does not exist in targetDir; the
\* name returned never exists in targetDir when the call is made.
C18_UniqueName ==
    \A original_name \in NamesAsked, target_dir \in DirsAsked :
        LET ret == _get_unique_name(fs, original_name, target_dir)
        IN /\ ~exists(fs, join(target_dir, ret))
           /\ ~exists(fs, join(target_dir, original_name)) => ret = original_name
           /\ exists(fs, join(target_dir, original_name)) =>
                 \E k \in 2..(Cardinality(DOMAIN fs) + 2) :
                     /\ ret = Numbered(original_name, k)
                     /\ \A j \in 2..(k - 1) : exists(fs, join(target_dir, Numbered(original_name, j)))

\* A run has duplicated n.txt as n_3.txt next to n_2.txt, and the next name
\* for it is n_4.txt.
C18_Witness ==
    /\ RealRun
    /\ {"/w/n.txt", "/w/n_2.txt", "/w/n_3.txt"} \subseteq DOMAIN fs
    /\ fs["/w/n_3.txt"].copy_of = fs["/w/n.txt"].id
    /\ fs["/w/n_2.txt"].copy_of = 0
    /\ _get_unique_name(fs, "n.txt", "/w") = "n_4.txt"

(***************************************************************************)
(* SiblingCopy: collisions                                                 *)
(***************************************************************************)

\* A real SiblingCopy run.
SiblingCopyRun == RealRun /\ worker.mode = "copy1"

\* _process_copy_with_replace is about to handle a source whose name
\* matches and whose renamed target exists already.
RenamedCopyCollides ==
    /\ SiblingCopyRun /\ At_("_process_copy_with_replace", "entry")
    /\ ~stop_requested /\ ~_contains_ignored_word(worker, basename(top.source))
    /\ _text_matches(worker, basename(top.source))
    /\ exists(fs, join(top.path, _replace_text_in_string(worker, basename(top.source))))

\* The second loop of _run_copy1 is at a top-level file.
AtTopFile == SiblingCopyRun /\ At_("_run_copy1", "files") /\ top.i <= Len(top.files)

\* The first of base_2+ext, base_3+ext, ... that is free in directory d of f.
FirstFree(f, name, d) ==
    Numbered(name, CHOOSE k \in 2..(Cardinality(DOMAIN f) + 2) :
                       /\ ~exists(f, join(d, Numbered(name, k)))
                       /\ \A j \in 2..(k - 1) : exists(f, join(d, Numbered(name, j))))

\* C19: in SiblingCopy, (1) a renamed copy whose target path exists is
\* given up: the call logs it and returns, and nothing is written; (2) when
\* a top-level file is duplicated for its content, the duplicate is the one
\* new entry, it has the first free name among base_2+ext, base_3+ext, ...,
\* it is a copy of that file, and the file and every other entry stay as
\* they were. (A step that changes the stack is a step of the worker.)
C19_SiblingCopyCollision ==
    [][/\ (RenamedCopyCollides /\ stack' # stack) =>
             /\ fs' = fs
             /\ stack' = Rest
             /\ events' = events \o
                   <<LogLine("copy_exists",
                             join(top.path, _replace_text_in_string(worker, basename(top.source))))>>
       /\ (AtTopFile /\ fs' # fs) =>
             LET file_path == top.files[top.i]
                 duplicate == join(worker.folder_path,
                                   FirstFree(fs, basename(file_path), worker.folder_path))
             IN /\ ~_text_matches(worker, basename(file_path))
                /\ _text_matches(worker, fs[file_path].content)
                /\ DOMAIN fs' = DOMAIN fs \cup {duplicate}
                /\ duplicate \notin DOMAIN fs
                /\ fs'[duplicate].copy_of = Origin(fs[file_path])
                /\ \A p \in DOMAIN fs : fs'[p] = fs[p]
      ]_vars

\* A SiblingCopy run has given up a renamed copy and has duplicated n.txt,
\* next to n_2.txt, as n_3.txt.
C19_Witness ==
    /\ SiblingCopyRun /\ Ended
    /\ Logged("copy_exists") # {}
    /\ {"/w/n.txt", "/w/n_2.txt", "/w/n_3.txt"} \subseteq DOMAIN fs
    /\ "/w/n_3.txt" \notin DOMAIN fs0
    /\ fs["/w/n_3.txt"].copy_of = fs0["/w/n.txt"].id
    /\ fs["/w/n.txt"] = fs0["/w/n.txt"]

(***************************************************************************)
(* TreeCopy: renamed copies at every level                                 *)
(***************************************************************************)

\* A real TreeCopy run.
TreeCopyRun == RealRun /\ worker.mode = "copy2"

\* The child named c of directory d has a name that matches and is not
\* ignored: no ignored path, ignored extension or ignored keyword exempts it.
MatchingChild(d, c) ==
    /\ _text_matches(worker, c)
    /\ ~FullyIgnored(fs, join(d, c))
    /\ ~KeywordExempt(fs, join(d, c))

\* C20: after a TreeCopy run that completes, every directory of the tree,
\* the original ones and the renamed copies the run has made, holds next to
\* each child whose name matches and that is not ignored an entry with the
\* replaced name.
C20_MultiplicativeMatches ==
    (TreeCopyRun /\ Completed) =>
        \A d \in {p \in DOMAIN fs : isdir(fs, p)} :
            \A c \in listdir(fs, d) :
                MatchingChild(d, c) => exists(fs, join(d, _replace_text_in_string(worker, c)))

(***************************************************************************)
(* One run at a time                                                       *)
(***************************************************************************)

\* A worker is started by this step.
WorkerStarts == runs' = runs + 1

\* The worker's Finished event has been handled by _on_worker_finished.
Handled == worker = None

\* C22: at most one run is active at any time. From the step that starts a
\* worker until _on_worker_finished has handled its Finished event the
\* preview and the start control are disabled, the worker thread runs only
\* in between, and a step that starts a worker is taken only when the
\* worker before it has ended and its Finished event has been handled.
C22_OneRunAtATime ==
    /\ [](~Handled => ~ui_enabled)
    /\ [](Running => ~Handled)
    /\ [][WorkerStarts => (~Running /\ Handled /\ ui_enabled /\ ~ui_enabled' /\ ~Handled')]_vars
    /\ [][(~Handled /\ ui_enabled') => (~Running /\ Ended /\ Handled')]_vars

\* A second worker runs after the Finished event of the first was handled.
C22_Witness == runs = 2 /\ Running /\ prev.given /\ ~ui_enabled /\ ~Handled

(***************************************************************************)
(* The ignore decisions of the preview                                     *)
(***************************************************************************)

\* The records that name the entry they are about: a NameChange or a
\* ContentChange of InPlace, and a created copy that carries the old name.
NamesSource(r) ==
    \/ r.type \in {"name", "created_rename", "created_content"}
    \/ (r.type = "content" /\ worker.mode = "replace")

\* The path of the entry a record is about.
SourceOf(r) == IF worker.mode = "replace" THEN r.path ELSE join(dirname(r.path), r.old_name)

\* The real run skips the entry at p, in the way record r says it would be
\* treated: a keyword occurs in its full path, or in its content, or the
\* new name is taken where the record announces a rename or a renamed copy.
RealRunSkips(p, r) ==
    \/ HasKeyword(p)
    \/ (fs[p].kind = "file" /\ ~fs[p].locked /\ ~_should_ignore_file(p) /\ HasKeyword(fs[p].content))
    \/ (r.type \in {"name", "created_rename"} /\ exists(fs, join(dirname(p), r.new_name)))

\* C23: the list of a completed preview, in any mode, holds no record for
\* an entry the real run skips because an ignored keyword occurs anywhere
\* in its full path or in its content, or because its rename target exists.
C23_PreviewIgnoreDecisions ==
    (PreviewRun /\ Completed) =>
        \A k \in 1..Len(temp_matches) :
            LET r == temp_matches[k]
            IN (NamesSource(r) /\ exists(fs, SourceOf(r))) => ~RealRunSkips(SourceOf(r), r)

(***************************************************************************)
(* The records of the InPlace preview                                      *)
(***************************************************************************)

\* C24: every record a preview run in InPlace mode has collected is a
\* NameChange or a ContentChange and carries the path of an entry of the
\* tree; none is a created-copy record.
C24_InPlacePreviewRecords ==
    (PreviewRun /\ worker.mode = "replace") =>
        \A k \in 1..Len(temp_matches) :
            /\ temp_matches[k].type \in {"name", "content"}
            /\ exists(fs, temp_matches[k].path)

(***************************************************************************)
(* SiblingCopy: the subtree of a duplicated directory                      *)
(***************************************************************************)

\* The top-level directories SiblingCopy has duplicated under a new name.
Duplicated ==
    {d \in DOMAIN fs0 :
        /\ fs0[d].kind = "dir" /\ dirname(d) = worker.folder_path
        /\ _text_matches(worker, basename(d))
        /\ ~exists(fs0, NewPath(d)) /\ isdir(fs, NewPath(d))}

\* The text with every match replaced where it matches, as it is otherwise.
ReplacedWhereMatching(text) ==
    IF _text_matches(worker, text) THEN _replace_text_in_string(worker, text) ELSE text

\* The entry that was at p, below the duplicated directory d, has its
\* counterpart in the copy of d: a directory under the path with the names
\* replaced; a file as a copy of it with its name and its content replaced
\* where they match (a name that does not match may have been numbered).
HasCounterpart(d, p) ==
    IF fs0[p].kind = "dir"
    THEN isdir(fs, join(worker.folder_path,
                        _replace_text_in_string(worker, SubSeq(p, Len(worker.folder_path) + 2, Len(p)))))
    ELSE \E q \in DOMAIN fs :
            /\ Under(q, NewPath(d)) /\ fs[q].copy_of = fs0[p].id
            /\ _text_matches(worker, basename(p)) =>
                   basename(q) = _replace_text_in_string(worker, basename(p))
            /\ fs[q].content =
                   IF _should_ignore_file(p) THEN fs0[p].content
                   ELSE ReplacedWhereMatching(fs0[p].content)

\* C25: after a SiblingCopy run that completes, every descendant of a
\* duplicated top-level directory that the ignore policy does not exclude
\* (not fully ignored, not exempt by keyword) has its counterpart in the
\* copy, whether or not its own name or content matches.
C25_FullSubtreeCopied ==
    (SiblingCopyRun /\ Completed) =>
        \A d \in Duplicated : \A p \in Below(fs0, d) :
            (~FullyIgnored(fs0, p) /\ ~KeywordExempt(fs0, p)) => HasCounterpart(d, p)

(***************************************************************************)
(* Binary files keep their content                                         *)
(***************************************************************************)

\* The files of f whose path has a built-in binary extension.
BinaryFiles(f) == {p \in DOMAIN f : f[p].kind = "file" /\ _should_ignore_file(p)}

\* The content the entry now at p had when the run started: its own, or
\* that of the entry it was copied from.
ContentAtStart(p) ==
    LET q == CHOOSE x \in DOMAIN fs0 : fs0[x].id \in {fs[p].id, fs[p].copy_of}
    IN fs0[q].content

\* C26: in a real run of any mode a file whose path has a built-in binary
\* extension holds the content it had, or the file it was copied from had,
\* when the run started, whether or not that content matches.
C26_BinaryContentKept ==
    RealRun => \A p \in BinaryFiles(fs) :
                  /\ \E x \in DOMAIN fs0 : fs0[x].id \in {fs[p].id, fs[p].copy_of}
                  /\ fs[p].content = ContentAtStart(p)

\* A real run that has rewritten files has ended; a binary file that was
\* there from the start and a copy of one made by the run hold content that
\* matches the search text.
C26_Witness ==
    /\ RealRun /\ Completed /\ Logged("content_replaced") # {}
    /\ \E p, q \in BinaryFiles(fs) :
          /\ fs[p].copy_of = 0 /\ _text_matches(worker, fs[p].content)
          /\ fs[q].copy_of # 0 /\ _text_matches(worker, fs[q].content)

(***************************************************************************)
(* TreeCopy terminates                                                     *)
(***************************************************************************)

\* A step of the worker thread.
WorkerStep ==
    \/ RunPreviewStart \/ PreviewItemsStep \/ PreviewFilesStep \/ SimulateDirEntry
    \/ SimulateDirSubdirsStep \/ SimulateDirCreatedStep \/ RunPreviewFinish
    \/ RunReplacementStart \/ ReplaceFilesStep \/ ReplaceItemsStep
    \/ RunCopy1Start \/ Copy1ItemsStep \/ ProcessCopyEntry \/ ProcessCopyChild \/ Copy1FilesStep
    \/ RunCopy2Start \/ RunCopy2Finish \/ ProcessDirEntry \/ ProcessDirRenamedStep
    \/ ProcessDirContentStep \/ ProcessDirSubdirsStep \/ ProcessDirCreatedStep

\* The thread is scheduled as long as run() has not returned: QThread runs
\* worker.run() to its return, so a behaviour in which the thread is left
\* for ever in the middle of run() is none of the program. This is
\* WF_vars(WorkerStep) with ENABLED <<WorkerStep>>_vars written as Running.
WorkerScheduled == []<>(~Running) \/ []<><<WorkerStep>>_vars

\* The engine's runs under that scheduling.
FairEngineSpec == InitEngine /\ [][NextEngine]_vars /\ WorkerScheduled

\* C27: a TreeCopy run that has been started ends and its last signal is
\* Finished, also when the replacement text contains the search text and
\* the renamed copies match again.
C27_TreeCopyTerminates ==
    (TreeCopyRun /\ Running) ~> (TreeCopyRun /\ ~Running /\ Last(events).type = "finished")

\* A TreeCopy run whose replacement text contains the search text has
\* completed after making directories whose names match again.
C27_Witness ==
    /\ TreeCopyRun /\ Completed
    /\ Contains(worker.replace_text, worker.find_text)
    /\ \E p \in DOMAIN fs \ DOMAIN fs0 : isdir(fs, p) /\ _text_matches(worker, basename(p))

(***************************************************************************)
(* The copy modes only add                                                 *)
(***************************************************************************)

\* A real run in SiblingCopy or TreeCopy mode.
CopyRun == RealRun /\ worker.mode \in {"copy1", "copy2"}

\* Every entry there was when the run started is where it was, as it was.
OriginalsKept == \A p \in DOMAIN fs0 : p \in DOMAIN fs /\ fs[p] = fs0[p]

\* This step leaves every entry at its path, puts every new entry at a path
\* that was free, and changes the content only of entries the run created.
OnlyAdds ==
    /\ \A p \in DOMAIN fs : p \in DOMAIN fs' /\ fs'[p].id = fs[p].id /\ fs'[p].kind = fs[p].kind
    /\ \A p \in DOMAIN fs' : fs'[p].id \notin Ids(fs) => p \notin DOMAIN fs
    /\ \A p \in DOMAIN fs : fs'[p].content # fs[p].content => fs[p].id \notin Ids(fs0)

\* C28: a real run in SiblingCopy or TreeCopy mode only adds entries: what
\* existed when it started stays under the same path with the same content,
\* every copy is put at a path that did not exist when it was made, and
\* only entries made by the run have their content rewritten.
C28_CopiesOnlyAdd ==
    /\ [](CopyRun => OriginalsKept)
    /\ [][CopyRun => OnlyAdds]_vars

\* A copy run has completed after making a copy whose content it rewrote
\* and a copy under a numbered name next to entries that were there before.
C28_Witness ==
    /\ CopyRun /\ Completed
    /\ \E p, q \in DOMAIN fs \ DOMAIN fs0 :
          /\ fs[p].kind = "file"
          /\ \E o \in DOMAIN fs0 : fs0[o].id = fs[p].copy_of /\ fs0[o].content # fs[p].content
          /\ \E o \in DOMAIN fs0 : fs0[o].id = fs[q].copy_of /\ basename(q) = Numbered(basename(o), FirstCounter)

(***************************************************************************)
(* The replacement text on the three paths of _replace_text_in_string.     *)
(***************************************************************************)

\* The occurrences _replace_text_in_string matches in text, each replaced
\* by exactly the characters of replace_text.
LiteralReplaced(self, text) ==
    IF self.find_text = "" THEN text
    ELSE IF self.whole_words
    THEN SubFrom(Compile("\\b" \o re_escape(self.find_text) \o "\\b"), self.replace_text,
                 text, 1, ~self.case_sensitive)
    ELSE IF self.case_sensitive
    THEN str_replace(text, self.find_text, self.replace_text)
    ELSE SubFrom(Compile(re_escape(self.find_text)), self.replace_text, text, 1, TRUE)

\* C29: under every flag combination a call of _replace_text_in_string with
\* a non-empty search text raises no error and returns the text with each
\* matched occurrence replaced by exactly the characters of replace_text
\* (a replacement text that holds a backslash included).
C29_LiteralReplacement ==
    (call.fn = "_replace_text_in_string" /\ worker.find_text # "") =>
        /\ ~call.raised
        /\ call.ret_str = LiteralReplaced(worker, call.text)

(***************************************************************************)
(* The encoding a rewritten file is stored in.                             *)
(***************************************************************************)

\* The step rewrites the file that is at path p before it and at path q
\* after it: the same entry, with another content.
Rewrites(p, q) ==
    /\ isfile(fs, p) /\ isfile(fs', q)
    /\ fs'[q].id = fs[p].id
    /\ fs'[q].content # fs[p].content

\* C30: a file that a step of a run rewrites is stored, after the step, in
\* the encoding under which _read_file decoded it before the step (utf-8,
\* cp1251 or latin-1), so the characters outside the replaced occurrences
\* keep their bytes.
C30_WriteBackEncoding ==
    [][\A p \in DOMAIN fs : \A q \in DOMAIN fs' :
           Rewrites(p, q) => fs'[q].enc = _read_file(fs, p).encoding]_vars

====
